---- MODULE Spec2Model ----
(***************************************************************************)
(* Incremental semantic sync engine of agent0-ts: SemanticSyncRunner       *)
(* (run / processChain / prepareAgents), the file-backed checkpoint store  *)
(* and computeAgentHash, modelled as a state machine.                      *)
(*                                                                         *)
(* Watermarks (updatedAt, lastUpdatedAt) are decimal strings in the code;  *)
(* here a string is the sequence of its digits, so that the code's string  *)
(* comparison (>) and the query service's BigInt comparison are distinct   *)
(* operators.                                                              *)
(***************************************************************************)
EXTENDS Integers, Sequences, FiniteSets, TLC

\* ------------------------------------------------------------------ bounds
\* Largest number of source records over all chains.
MaxRecords == 2
\* Number of run() invocations a behaviour may start.
MaxRuns == 2
\* Largest number of entries of options.targets.
MaxTargets == 2
\* Largest batchSize option tried.
MaxBatchSize == 2
\* Number of versions the source may gain between runs.
MaxAppends == 2

\* ------------------------------------------------------------ value sets
\* The resolved targets, in target order (explicit clients, one per chain).
Targets == <<1, 2>>
Chains == {Targets[i] : i \in 1..Len(Targets)}
\* URLs: none (undefined), and one value for each place a URL can come from.
NoUrl == 0
TargetUrl == 1
OverrideUrl == 2
DefaultUrl == 3
\* A resolved subgraphClient: the target's own, new SubgraphClient(url), or
\* sdk.subgraphClient.  ref is the target's position, the URL, or 0.
ExplicitClient(position) == [kind |-> "explicit", ref |-> position]
UrlClient(url) == [kind |-> "url", ref |-> url]
SdkClient == [kind |-> "sdk", ref |-> 0]
\* SemanticSyncRunnerTarget: chainId, subgraphUrl?, subgraphClient? (present
\* or not).
RunnerTargets == [chainId : Chains, subgraphUrl : {NoUrl, TargetUrl}, subgraphClient : BOOLEAN]
\* options.targets of a runner given one explicit client per chain.
ExplicitTargets ==
  [i \in DOMAIN Targets |-> [chainId |-> Targets[i], subgraphUrl |-> NoUrl, subgraphClient |-> TRUE]]
\* this.resolvedTargets before resolveTargets has succeeded.
Unresolved == [set |-> FALSE, list |-> <<>>]

\* Key of state.chains.__legacy (chain keys are numbers in the model).
LegacyKey == 0
AgentIds == {1, 2}
\* "9", "10", "11": values around a change of digit count.
Watermarks == {<<9>>, <<1, 0>>, <<1, 1>>}
\* '0', the genesis watermark of ensureChainState.
ZeroWatermark == <<0>>

\* registrationFile: null (a tombstone) or a struct.  name is a top-level
\* field of the indexed record, ens a field nested in its metadata.
NullReg == [present |-> FALSE, name |-> 0, ens |-> 0]
LiveRegs == {[present |-> TRUE, name |-> 1, ens |-> 1],
             [present |-> TRUE, name |-> 1, ens |-> 2],
             [present |-> TRUE, name |-> 2, ens |-> 1]}
Regs == {NullReg} \cup LiveRegs

\* SubgraphAgent (one version of one agent as the subgraph returns it).
SubgraphAgents == [id : AgentIds, updatedAt : Watermarks, registrationFile : Regs]

\* ------------------------------------------------------- decimal strings
RECURSIVE ToNum(_)
\* BigInt(s): the integer a decimal string denotes.
ToNum(s) == IF s = <<>> THEN 0 ELSE 10 * ToNum(SubSeq(s, 1, Len(s) - 1)) + s[Len(s)]

RECURSIVE StrGreater(_, _)
\* JavaScript a > b on strings: code units compared left to right, a proper
\* prefix being the smaller.
StrGreater(a, b) ==
  IF a = <<>> THEN FALSE
  ELSE IF b = <<>> THEN TRUE
  ELSE IF a[1] # b[1] THEN a[1] > b[1]
  ELSE StrGreater(Tail(a), Tail(b))

\* ----------------------------------------------------- record and hash
\* toSemanticAgentRecord: the record handed to the indexing service.
toSemanticAgentRecord(chainId, agent) ==
  [chainId |-> chainId,
   agentId |-> agent.id,
   name |-> agent.registrationFile.name,
   metadata |-> [ens |-> agent.registrationFile.ens, updatedAt |-> agent.updatedAt]]

\* Object.keys(agent).sort(): the replacer array of JSON.stringify.
ReplacerKeys == {"agentId", "chainId", "metadata", "name"}
MetadataKeys == {"ens", "updatedAt"}

\* JSON.stringify(agent, replacerArray): an array replacer is a whitelist of
\* property names applied at every nesting level, so a nested object keeps
\* only those of its keys that are also top-level keys.
Canonical(record) ==
  [agentId |-> record.agentId,
   chainId |-> record.chainId,
   name |-> record.name,
   metadata |-> [k \in MetadataKeys \cap ReplacerKeys |-> record.metadata[k]]]

\* computeAgentHash: FNV-1a over the canonical string.  The digest is
\* represented by the string it is computed from (digest collisions are
\* outside the model).
computeAgentHash(record) == Canonical(record)

\* The fingerprint slot of a hashes entry that carries none ({ agentId }).
NoHash == [agentId |-> 0, chainId |-> 0, name |-> 0, metadata |-> <<>>]

\* ------------------------------------------------------------ sync state
EmptyMap == <<>>
\* { lastUpdatedAt: '0', agentHashes: {} }
GenesisChainState == [lastUpdatedAt |-> ZeroWatermark, agentHashes |-> EmptyMap]
\* { chains: {} }
EmptyState == [chains |-> EmptyMap]
\* The state file: absent, or a JSON document.
NoFile == [exists |-> FALSE, partial |-> FALSE, doc |-> EmptyState]
\* A file whose write stopped part-way: not a complete JSON document.
Truncated == [exists |-> TRUE, partial |-> TRUE, doc |-> EmptyState]

\* Function f with key k set to v (k added when absent).
Put(f, k, v) == [x \in DOMAIN f \cup {k} |-> IF x = k THEN v ELSE f[x]]
\* Function f without key k.
Drop(f, k) == [x \in DOMAIN f \ {k} |-> f[x]]

\* --------------------------------------------------------------- variables
VARIABLES
  source,                \* chain -> its dataset, in the order the query sorts it
  batchSize,             \* options.batchSize
  includeOrphanedAgents, \* options.includeOrphanedAgents
  targetsConfig,         \* options.targets (the empty sequence when omitted)
  subgraphOverrides,     \* options.subgraphOverrides: chain -> URL or NoUrl
  defaultSubgraphUrls,   \* DEFAULT_SUBGRAPH_URLS: chain -> URL or NoUrl
  sdk,                   \* the SDK: what chainId() resolves to, subgraphClient?
  resolvedTargets,       \* this.resolvedTargets
  file,                  \* the state file at filepath
  tmp,                   \* the temporary file filepath.tmp
  index,                 \* the vector index: <<chainId, agentId>> -> record
  pc,                    \* where run() stands
  state,                 \* run()'s in-memory SemanticSyncState
  ti,                    \* position of the for loop of run() in Targets
  lastUpdatedAt,         \* processChain's local lastUpdatedAt
  batch,                 \* the batch in hand: fetch and prepareAgents results
  hist,                  \* how each finished run ended, oldest first
  failure,               \* the request failure of the current or last run
  fileAtFetch,           \* the state file as it was when the batch was fetched
  called,                \* chains a request was issued for in this run
  issued,                \* records sent in index/delete calls of this run
  reissued,              \* records sent in more than one call of this run
  acked,                 \* records whose index/delete call was acknowledged
  ackedAtStart,          \* acked, as it was when this run started
  inflight,              \* records of the batch in hand when a run was killed
  logger,                \* options.logger: "none", "ok" (returns) or "throws"
  processedAny,          \* processedAny of processChain (chain) and of run() (run)
  calls,                 \* the index/delete calls made for the batch in hand
  memory,                \* this.state of an InMemorySemanticSyncStateStore
  probe,                 \* a caller of the stores: its last operation and result
  saves,                 \* the states passed to stateStore.save in this run, oldest first
  events,                \* the events options.logger received in this run, oldest first
  processed,             \* chain -> agent id -> kind of its last version in a saved batch
  scan,                  \* chain -> what this run's processChain fetched from it
  parked                 \* the locals of another run() invocation, suspended at an await

vars == <<source, batchSize, includeOrphanedAgents, targetsConfig, subgraphOverrides,
          defaultSubgraphUrls, sdk, resolvedTargets, file, tmp, index, pc, state,
          ti, lastUpdatedAt, batch, hist, failure, fileAtFetch, called, issued,
          reissued, acked, ackedAtStart, inflight, logger, processedAny, calls,
          memory, probe, saves, events, processed, scan, parked>>

options == <<batchSize, includeOrphanedAgents, targetsConfig, subgraphOverrides,
             defaultSubgraphUrls, logger>>
config == <<source, options, sdk>>
\* The in-memory store and the caller of the stores, which run() (given the
\* file store) leaves alone.
store == <<memory, probe>>
\* What is recorded of a run: the save calls, the events of the sink, the
\* versions whose batch was saved, the records fetched.
observed == <<saves, events, processed, scan>>

\* --------------------------------------------------------- resolveTargets
\* The body of the for loop of resolveTargets for the target at a position;
\* defaultChainId is NoChain when the targets are configured.
NoChain == 0
ResolveOne(target, position, defaultChainId) ==
  IF target.subgraphClient
  THEN [ok |-> TRUE, chainId |-> target.chainId, subgraphClient |-> ExplicitClient(position)]
  ELSE LET url == IF target.subgraphUrl # NoUrl THEN target.subgraphUrl
                  ELSE subgraphOverrides[target.chainId]
       IN  IF /\ url = NoUrl
              /\ defaultChainId # NoChain
              /\ target.chainId = defaultChainId
              /\ sdk.subgraphClient
           THEN [ok |-> TRUE, chainId |-> target.chainId, subgraphClient |-> SdkClient]
           ELSE LET url2 == IF url = NoUrl THEN defaultSubgraphUrls[target.chainId] ELSE url
                IN  IF url2 = NoUrl
                    THEN [ok |-> FALSE, chainId |-> target.chainId, subgraphClient |-> SdkClient]
                    ELSE [ok |-> TRUE, chainId |-> target.chainId,
                          subgraphClient |-> UrlClient(url2)]

\* Variant: no target is made up when the targets option is omitted or empty.
RequestedWithoutFallback == [targets |-> targetsConfig, defaultChainId |-> NoChain]

\* The targets the loop goes over and the defaultChainId it uses: the
\* configured ones, or the single target of the chain sdk.chainId() gives.
Requested ==
  IF Len(targetsConfig) > 0
  THEN [targets |-> targetsConfig, defaultChainId |-> NoChain]
  ELSE [targets |-> <<[chainId |-> sdk.chainId, subgraphUrl |-> NoUrl, subgraphClient |-> FALSE]>>,
        defaultChainId |-> sdk.chainId]

\* Variant: a target without client and URL is left out and the others are
\* resolved.
ResolveTargetsSkipping ==
  IF resolvedTargets.set THEN [ok |-> TRUE, list |-> resolvedTargets.list]
  ELSE LET each == [i \in DOMAIN Requested.targets |->
                      ResolveOne(Requested.targets[i], i, Requested.defaultChainId)]
           kept == SelectSeq(each, LAMBDA r : r.ok)
       IN  [ok |-> TRUE,
            list |-> [i \in DOMAIN kept |->
                        [chainId |-> kept[i].chainId, subgraphClient |-> kept[i].subgraphClient]]]

\* Variant: the cached list is not looked at.
ResolveTargetsUncached ==
  LET each == [i \in DOMAIN Requested.targets |->
                 ResolveOne(Requested.targets[i], i, Requested.defaultChainId)]
  IN  [ok |-> \A i \in DOMAIN each : each[i].ok,
       list |-> [i \in DOMAIN each |->
                   [chainId |-> each[i].chainId, subgraphClient |-> each[i].subgraphClient]]]

\* resolveTargets: the cached list, or the resolution of every target; a
\* target without client and URL makes it throw (ok = FALSE).
resolveTargets ==
  IF resolvedTargets.set THEN [ok |-> TRUE, list |-> resolvedTargets.list]
  ELSE LET each == [i \in DOMAIN Requested.targets |->
                      ResolveOne(Requested.targets[i], i, Requested.defaultChainId)]
       IN  [ok |-> \A i \in DOMAIN each : each[i].ok,
            list |-> [i \in DOMAIN each |->
                        [chainId |-> each[i].chainId, subgraphClient |-> each[i].subgraphClient]]]

\* ---------------------------------------------------------- query service
\* The agents query of fetchAgents: where updatedAt_gt (a BigInt comparison),
\* orderBy updatedAt asc, first.  data is kept in ascending updatedAt order.
FetchAgents(data, updatedAfter, first) ==
  LET hits == SelectSeq(data, LAMBDA a : ToNum(a.updatedAt) > ToNum(updatedAfter))
  IN  SubSeq(hits, 1, IF Len(hits) < first THEN Len(hits) ELSE first)

\* ---------------------------------------------------------- prepareAgents
\* The result of prepareAgents before the first agent is looked at.
PrepareStart(chainState) ==
  [toIndex |-> <<>>, toDelete |-> <<>>, hashes |-> <<>>,
   maxUpdatedAt |-> chainState.lastUpdatedAt]

\* if (updatedAt > maxUpdatedAt) maxUpdatedAt = updatedAt: both are strings.
NextMaxUpdatedAt(maxUpdatedAt, updatedAt) ==
  IF StrGreater(updatedAt, maxUpdatedAt) THEN updatedAt ELSE maxUpdatedAt

\* Variant: a tombstone's hash entry is dropped whatever the orphan option.
PrepareOneForgetsOrphan(acc, chainId, agent, chainState, orphans) ==
  LET max == NextMaxUpdatedAt(acc.maxUpdatedAt, agent.updatedAt)
      record == toSemanticAgentRecord(chainId, agent)
      hash == computeAgentHash(record)
  IN  IF ~agent.registrationFile.present
      THEN [acc EXCEPT !.maxUpdatedAt = max,
                       !.toDelete = IF orphans
                                    THEN Append(@, [chainId |-> chainId, agentId |-> agent.id])
                                    ELSE @,
                       !.hashes = Append(@, [agentId |-> agent.id, has |-> FALSE, hash |-> NoHash])]
      ELSE IF agent.id \in DOMAIN chainState.agentHashes
              /\ chainState.agentHashes[agent.id] = hash
           THEN [acc EXCEPT !.maxUpdatedAt = max]
           ELSE [acc EXCEPT !.maxUpdatedAt = max,
                            !.toIndex = Append(@, record),
                            !.hashes = Append(@, [agentId |-> agent.id, has |-> TRUE, hash |-> hash])]

\* Variant: a tombstone is marked for deletion only when a hash is stored
\* for its id.
PrepareOneDeletesKnownOnly(acc, chainId, agent, chainState, orphans) ==
  LET max == NextMaxUpdatedAt(acc.maxUpdatedAt, agent.updatedAt)
      record == toSemanticAgentRecord(chainId, agent)
      hash == computeAgentHash(record)
  IN  IF ~agent.registrationFile.present
      THEN IF orphans /\ agent.id \in DOMAIN chainState.agentHashes
           THEN [acc EXCEPT !.maxUpdatedAt = max,
                            !.toDelete = Append(@, [chainId |-> chainId, agentId |-> agent.id]),
                            !.hashes = Append(@, [agentId |-> agent.id, has |-> FALSE, hash |-> NoHash])]
           ELSE [acc EXCEPT !.maxUpdatedAt = max]
      ELSE IF agent.id \in DOMAIN chainState.agentHashes
              /\ chainState.agentHashes[agent.id] = hash
           THEN [acc EXCEPT !.maxUpdatedAt = max]
           ELSE [acc EXCEPT !.maxUpdatedAt = max,
                            !.toIndex = Append(@, record),
                            !.hashes = Append(@, [agentId |-> agent.id, has |-> TRUE, hash |-> hash])]

\* One iteration of the for loop of prepareAgents.
PrepareOne(acc, chainId, agent, chainState, orphans) ==
  LET max == NextMaxUpdatedAt(acc.maxUpdatedAt, agent.updatedAt)
      record == toSemanticAgentRecord(chainId, agent)
      hash == computeAgentHash(record)
  IN  IF ~agent.registrationFile.present
      THEN IF orphans
           THEN [acc EXCEPT !.maxUpdatedAt = max,
                            !.toDelete = Append(@, [chainId |-> chainId, agentId |-> agent.id]),
                            !.hashes = Append(@, [agentId |-> agent.id, has |-> FALSE, hash |-> NoHash])]
           ELSE [acc EXCEPT !.maxUpdatedAt = max]
      ELSE IF agent.id \in DOMAIN chainState.agentHashes
              /\ chainState.agentHashes[agent.id] = hash
           THEN [acc EXCEPT !.maxUpdatedAt = max]
           ELSE [acc EXCEPT !.maxUpdatedAt = max,
                            !.toIndex = Append(@, record),
                            !.hashes = Append(@, [agentId |-> agent.id, has |-> TRUE, hash |-> hash])]

RECURSIVE PrepareFrom(_, _, _, _, _, _)
PrepareFrom(acc, i, chainId, agents, chainState, orphans) ==
  IF i > Len(agents) THEN acc
  ELSE PrepareFrom(PrepareOne(acc, chainId, agents[i], chainState, orphans),
                   i + 1, chainId, agents, chainState, orphans)

prepareAgents(chainId, agents, chainState, orphans) ==
  PrepareFrom(PrepareStart(chainState), 1, chainId, agents, chainState, orphans)

\* ------------------------------------------------------- ensureChainState
\* Variant: the __legacy entry is copied and not deleted.
EnsureChainStateKeepsLegacy(st, chainKey) ==
  IF chainKey \in DOMAIN st.chains THEN st
  ELSE IF LegacyKey \in DOMAIN st.chains
       THEN [chains |-> Put(st.chains, chainKey, st.chains[LegacyKey])]
       ELSE [chains |-> Put(st.chains, chainKey, GenesisChainState)]

\* Variant: the chain's entry is created whether or not it exists.
EnsureChainStateAlwaysFresh(st, chainKey) ==
  [chains |-> Put(st.chains, chainKey, GenesisChainState)]

ensureChainState(st, chainKey) ==
  IF chainKey \in DOMAIN st.chains THEN st
  ELSE IF LegacyKey \in DOMAIN st.chains
       THEN [chains |-> Drop(Put(st.chains, chainKey, st.chains[LegacyKey]), LegacyKey)]
       ELSE [chains |-> Put(st.chains, chainKey, GenesisChainState)]

\* ------------------------------------------------ the checkpoint of a batch
RECURSIVE ApplyHashes(_, _, _)
\* for (const { agentId, hash } of hashes): set the entry, or delete it.
ApplyHashes(agentHashes, hashes, i) ==
  IF i > Len(hashes) THEN agentHashes
  ELSE ApplyHashes(IF hashes[i].has
                   THEN Put(agentHashes, hashes[i].agentId, hashes[i].hash)
                   ELSE Drop(agentHashes, hashes[i].agentId),
                   hashes, i + 1)

\* Variant: the watermark is assigned and the staged hashes are not applied.
CheckpointHashesKept(chainState, prepared) ==
  [lastUpdatedAt |-> prepared.maxUpdatedAt,
   agentHashes |-> chainState.agentHashes]

\* Variant: chainState.lastUpdatedAt is not assigned.
CheckpointWatermarkKept(chainState, prepared) ==
  [lastUpdatedAt |-> chainState.lastUpdatedAt,
   agentHashes |-> ApplyHashes(chainState.agentHashes, prepared.hashes, 1)]

\* "Update hashes after successful writes", then chainState.lastUpdatedAt.
Checkpoint(chainState, prepared) ==
  [lastUpdatedAt |-> prepared.maxUpdatedAt,
   agentHashes |-> ApplyHashes(chainState.agentHashes, prepared.hashes, 1)]

\* -------------------------------------------------------- indexing service
RECURSIVE Upsert(_, _, _)
\* indexAgent / indexAgentsBatch: the records upserted in call order.
Upsert(idx, records, i) ==
  IF i > Len(records) THEN idx
  ELSE Upsert(Put(idx, <<records[i].chainId, records[i].agentId>>, records[i]),
              records, i + 1)

\* semanticDeleteAgentsBatch
DeleteAll(idx, toDelete) ==
  LET gone == {<<toDelete[i].chainId, toDelete[i].agentId>> : i \in 1..Len(toDelete)}
  IN  [k \in DOMAIN idx \ gone |-> idx[k]]

\* ---------------------------------------------------------------- helpers
NoRecord == [chainId |-> 0, agentId |-> 0, name |-> 0,
             metadata |-> [ens |-> 0, updatedAt |-> <<>>]]

\* No batch in hand; n tells the non-empty fetches of the chain in this run
\* apart: none yet (0), the first (1), a later one (2).
NoBatch == [some |-> FALSE, chain |-> 0, n |-> 0, after |-> ZeroWatermark,
            agents |-> <<>>, prepared |-> PrepareStart(GenesisChainState)]

NoFailure == [at |-> "none", ti |-> 0, run |-> 0, batch |-> NoBatch]

\* The records an indexing call and a deletion call of a batch carry.
IndexItems(prepared) ==
  {[op |-> "index", chainId |-> prepared.toIndex[i].chainId,
    agentId |-> prepared.toIndex[i].agentId, record |-> prepared.toIndex[i]] :
     i \in 1..Len(prepared.toIndex)}
\* A deletion entry names the agent only; the version deleted is the fetched
\* tombstone, told apart by its updatedAt.
DeleteItems(b) ==
  IF Len(b.prepared.toDelete) = 0 THEN {}
  ELSE {[op |-> "delete", chainId |-> b.chain, agentId |-> b.agents[i].id,
         record |-> [NoRecord EXCEPT !.metadata.updatedAt = b.agents[i].updatedAt]] :
          i \in {j \in 1..Len(b.agents) : ~b.agents[j].registrationFile.present}}
BatchItems(b) == IF b.some THEN IndexItems(b.prepared) \cup DeleteItems(b) ELSE {}

\* The number of the run in progress, or of the last one when idle.
RunNo == IF pc = "idle" THEN Len(hist) ELSE Len(hist) + 1

\* Variant: the state file is never found.
LoadIgnoringFile == EmptyState

\* Variant: the hashes of the loaded document are dropped.
LoadWithoutHashes ==
  IF file.exists
  THEN [chains |-> [c \in DOMAIN file.doc.chains |->
                      [file.doc.chains[c] EXCEPT !.agentHashes = EmptyMap]]]
  ELSE EmptyState

\* Variant: a temporary file left behind is read in place of the state file.
LoadPreferringTmp ==
  IF tmp.exists THEN tmp.doc ELSE IF file.exists THEN file.doc ELSE EmptyState

\* Variant: every error of readFile and JSON.parse is taken for a missing file.
LoadNullOnAnyError ==
  IF ~file.exists \/ file.partial THEN [ok |-> TRUE, null |-> TRUE, doc |-> EmptyState]
  ELSE [ok |-> TRUE, null |-> FALSE, doc |-> file.doc]

\* FileSemanticSyncStateStore.load: null when the file is missing (ENOENT),
\* an exception when JSON.parse rejects its content, else the document.
load ==
  IF ~file.exists THEN [ok |-> TRUE, null |-> TRUE, doc |-> EmptyState]
  ELSE IF file.partial THEN [ok |-> FALSE, null |-> FALSE, doc |-> EmptyState]
  ELSE [ok |-> TRUE, null |-> FALSE, doc |-> file.doc]

\* normalizeSemanticSyncState: null becomes { chains: {} }, a document of
\* the single-checkpoint shape { lastUpdatedAt, agentHashes } becomes the
\* __legacy entry of chains, a document with chains is taken as it is.
normalizeSemanticSyncState(loaded) ==
  IF loaded.null THEN EmptyState
  ELSE IF "chains" \in DOMAIN loaded.doc THEN loaded.doc
  ELSE [chains |-> Put(EmptyMap, LegacyKey,
                       [lastUpdatedAt |-> loaded.doc.lastUpdatedAt,
                        agentHashes |-> loaded.doc.agentHashes])]

\* const state = normalizeSemanticSyncState(await this.stateStore.load())
Load == normalizeSemanticSyncState(load)

\* processedAny before any batch of the run.
NotProcessed == [chain |-> FALSE, run |-> FALSE]

\* Variant: indexAgentsBatch is called for a single record too.
IndexAgentsAlwaysBatch(records) ==
  IF Len(records) > 0 THEN <<[method |-> "indexAgentsBatch", args |-> records]>> ELSE <<>>

\* indexAgents: indexAgent for one record, indexAgentsBatch for more, no
\* call for none.
indexAgents(records) ==
  IF Len(records) = 1 THEN <<[method |-> "indexAgent", args |-> records]>>
  ELSE IF Len(records) > 1 THEN <<[method |-> "indexAgentsBatch", args |-> records]>>
  ELSE <<>>

\* sdk.semanticDeleteAgentsBatch(toDelete)
semanticDeleteAgentsBatch(toDelete) ==
  [method |-> "semanticDeleteAgentsBatch", args |-> toDelete]

\* The in-memory store before its first save, and after clear: null.
NoMemory == [null |-> TRUE, doc |-> EmptyState]
\* What a caller of a store has before load returns.
NoResult == [ok |-> TRUE, null |-> TRUE, doc |-> EmptyState]
\* The caller of the stores before its first operation; at is the number
\* of runs finished when the operation was made.
NoProbe == [store |-> "none", op |-> "none", arg |-> EmptyState, result |-> NoResult, at |-> 0]

\* A run that ends fetches at most MaxRecords non-empty batches, so it calls
\* save at most MaxRecords + 1 times and logs at most one event per batch,
\* one per chain and one for the run.  What is recorded of a run stops
\* growing one entry past that (a fetch loop that never ends goes on).
MostBatches == MaxRecords + 1
MostSaves == MaxRecords + 2
MostEvents == MaxRecords + Len(Targets) + 2

\* s with entry e recorded, up to most entries.
Recorded(s, e, most) == IF Len(s) < most THEN Append(s, e) ELSE s

\* The events of the sink.  The fields an event lacks are 0 or empty.
NoTargetsEvent ==
  [message |-> "semantic-sync:no-targets", chainId |-> 0, indexed |-> 0, deleted |-> 0,
   lastUpdatedAt |-> <<>>, chains |-> <<>>]
\* { chains: targets.map(target => target.chainId) }
RunNoOpEvent(targets) ==
  [message |-> "semantic-sync:no-op", chainId |-> 0, indexed |-> 0, deleted |-> 0,
   lastUpdatedAt |-> <<>>, chains |-> [i \in DOMAIN targets |-> targets[i].chainId]]
\* { chainId: target.chainId, lastUpdatedAt }
NoOpEvent(chainId, last) ==
  [message |-> "semantic-sync:no-op", chainId |-> chainId, indexed |-> 0, deleted |-> 0,
   lastUpdatedAt |-> last, chains |-> <<>>]

\* Variant: the event carries the number of records fetched.
BatchProcessedEventCountsFetched(chainId, b, last) ==
  [message |-> "semantic-sync:batch-processed", chainId |-> chainId,
   indexed |-> Len(b.agents), deleted |-> Len(b.prepared.toDelete),
   lastUpdatedAt |-> last, chains |-> <<>>]

\* { chainId: target.chainId, indexed: toIndex.length, deleted:
\* toDelete.length, lastUpdatedAt }
BatchProcessedEvent(chainId, b, last) ==
  [message |-> "semantic-sync:batch-processed", chainId |-> chainId,
   indexed |-> Len(b.prepared.toIndex), deleted |-> Len(b.prepared.toDelete),
   lastUpdatedAt |-> last, chains |-> <<>>]

\* log(message, extra): the logger, when there is one, is called with the
\* event (a logger that throws has received it).
log(received, event) ==
  IF logger = "none" THEN received ELSE Recorded(received, event, MostEvents)

RECURSIVE LastKinds(_, _, _)
\* For the agents of a batch in fetch order from position i on, the kind of
\* the last version of each id: live, or a tombstone (registrationFile null).
LastKinds(kinds, agents, i) ==
  IF i > Len(agents) THEN kinds
  ELSE LastKinds(Put(kinds, agents[i].id,
                     IF agents[i].registrationFile.present THEN "live" ELSE "tombstone"),
                 agents, i + 1)

\* No batch of any chain saved yet.
NoneProcessed == [c \in Chains |-> EmptyMap]

\* scan[chain] when processChain makes its first fetch from lower bound from.
ScanStart(from) == [from |-> from, batches |-> 0, seen |-> {}]
\* scan after a fetch of the chain with lower bound after returned agents.
Scanned(sc, chain, first, after, agents) ==
  LET old == IF first \/ chain \notin DOMAIN sc THEN ScanStart(after) ELSE sc[chain]
  IN  Put(sc, chain,
          [from |-> old.from,
           batches |-> IF Len(agents) > 0 /\ old.batches < MostBatches
                       THEN old.batches + 1 ELSE old.batches,
           seen |-> old.seen \cup {agents[i] : i \in 1..Len(agents)}])

\* The locals of a run() invocation that has not started; overlap tells
\* whether an invocation has been suspended at an await while the other one
\* went on.
NotStarted ==
  [pc |-> "idle", state |-> EmptyState, ti |-> 0, lastUpdatedAt |-> ZeroWatermark,
   batch |-> NoBatch, processedAny |-> NotProcessed, overlap |-> FALSE]

\* Variant: only the chain being processed is written.
PayloadCurrentChainOnly(st) ==
  [exists |-> TRUE, partial |-> FALSE,
   doc |-> [chains |-> [c \in DOMAIN st.chains \cap {Targets[i] : i \in {ti} \cap DOMAIN Targets} |->
                          st.chains[c]]]]

\* JSON.stringify(state, null, 2): the document written to the file.
Payload(st) == [exists |-> TRUE, partial |-> FALSE, doc |-> st]

\* Variant: the deletion call is made first and the batch goes on to save.
AfterPrepareDeleteFirst(prepared) ==
  IF Len(prepared.toDelete) > 0 THEN "delete"
  ELSE IF Len(prepared.toIndex) > 0 THEN "index" ELSE "save"

\* The statement after prepareAgents, after indexAgents: a call is made
\* only for a non-empty list.
AfterPrepare(prepared) ==
  IF Len(prepared.toIndex) > 0 THEN "index"
  ELSE IF Len(prepared.toDelete) > 0 THEN "delete" ELSE "save"
AfterIndex(prepared) == IF Len(prepared.toDelete) > 0 THEN "delete" ELSE "save"

\* The for loop of run() over the resolved targets reaches position i with
\* state st: processChain is
\* entered (ensureChainState, lastUpdatedAt), or the loop is over.
EnterTarget(st, i, targets) ==
  IF i > Len(targets)
  THEN /\ pc' = "finalsave"
       /\ state' = st
       /\ ti' = i
       /\ lastUpdatedAt' = ZeroWatermark
       /\ batch' = NoBatch
  ELSE LET st2 == ensureChainState(st, targets[i].chainId)
       IN  /\ pc' = "fetch"
           /\ state' = st2
           /\ ti' = i
           /\ lastUpdatedAt' = st2.chains[targets[i].chainId].lastUpdatedAt
           /\ batch' = NoBatch

\* run() ends: the promise resolves ("completed"), rejects ("failed"), or the
\* process is gone ("killed", "killedAfterCheckpoint").
EndRun(how) ==
  /\ pc' = "idle"
  /\ hist' = Append(hist, how)

\* ------------------------------------------------------------------- Init
\* Datasets in ascending updatedAt order.
Ascending(data) ==
  \A i \in 1..Len(data) - 1 : ToNum(data[i].updatedAt) <= ToNum(data[i + 1].updatedAt)

\* Agent ids and field values are interchangeable: a dataset is taken up to
\* their renaming, its first agent having id 1 and its first live version
\* the first of LiveRegs.
FirstLiveReg == [present |-> TRUE, name |-> 1, ens |-> 1]
Labelled(data) ==
  /\ Len(data) > 0 => data[1].id = 1
  /\ \A i \in 1..Len(data) :
       (/\ data[i].registrationFile.present
        /\ \A j \in 1..(i - 1) : ~data[j].registrationFile.present)
       => data[i].registrationFile = FirstLiveReg

Datasets(n) ==
  {d \in UNION {[1..k -> SubgraphAgents] : k \in 0..n} : Ascending(d) /\ Labelled(d)}

\* A runner just constructed, an empty index, stores never used.
InitMemory ==
  /\ resolvedTargets = Unresolved
  /\ tmp = NoFile
  /\ index = EmptyMap
  /\ pc = "idle"
  /\ state = EmptyState
  /\ ti = 0
  /\ lastUpdatedAt = ZeroWatermark
  /\ batch = NoBatch
  /\ hist = <<>>
  /\ failure = NoFailure
  /\ fileAtFetch = NoFile
  /\ called = {}
  /\ issued = {}
  /\ reissued = {}
  /\ acked = {}
  /\ ackedAtStart = {}
  /\ inflight = {}
  /\ processedAny = NotProcessed
  /\ calls = <<>>
  /\ memory = NoMemory
  /\ probe = NoProbe
  /\ saves = <<>>
  /\ events = <<>>
  /\ processed = NoneProcessed
  /\ scan = EmptyMap
  /\ parked = NotStarted

\* A runner just constructed, no state file, an empty index.
InitRunner ==
  /\ file = NoFile
  /\ InitMemory

\* A runner given an explicit client for each chain of Targets.
Init ==
  /\ \E d1 \in Datasets(MaxRecords), d2 \in Datasets(1) :
       /\ Len(d1) + Len(d2) <= MaxRecords
       /\ source = [c \in Chains |-> IF c = Targets[1] THEN d1 ELSE d2]
  /\ batchSize \in 1..MaxBatchSize
  /\ includeOrphanedAgents \in BOOLEAN
  /\ targetsConfig = ExplicitTargets
  /\ subgraphOverrides = [c \in Chains |-> NoUrl]
  /\ defaultSubgraphUrls = [c \in Chains |-> NoUrl]
  /\ sdk = [chainId |-> Targets[1], subgraphClient |-> FALSE]
  /\ logger = "none"
  /\ InitRunner

\* ---------------------------------------------------------------- actions
\* A request of the run fails, or the logger throws: the error leaves
\* processChain and run().
Abort(at) ==
  /\ failure' = [at |-> at, ti |-> ti, run |-> RunNo, batch |-> batch]
  /\ EndRun("failed")

\* run(): load and normalize the state, resolve the targets, return if
\* there is none (semantic-sync:no-targets), else enter the first.
StartRun ==
  /\ pc = "idle"
  /\ Len(hist) < MaxRuns
  /\ load.ok
  /\ resolveTargets.ok
  /\ resolvedTargets' = [set |-> TRUE, list |-> resolveTargets.list]
  /\ IF Len(resolveTargets.list) = 0
     THEN /\ state' = Load
          /\ IF logger = "throws"
             THEN Abort("log")
             ELSE EndRun("completed") /\ UNCHANGED failure
          /\ UNCHANGED <<ti, lastUpdatedAt, batch>>
     ELSE /\ EnterTarget(Load, 1, resolveTargets.list)
          /\ UNCHANGED <<hist, failure>>
  /\ processedAny' = NotProcessed
  /\ calls' = <<>>
  /\ called' = {}
  /\ issued' = {}
  /\ reissued' = {}
  /\ ackedAtStart' = acked
  /\ fileAtFetch' = file
  /\ saves' = <<>>
  /\ events' = IF Len(resolveTargets.list) = 0 THEN log(<<>>, NoTargetsEvent) ELSE <<>>
  /\ scan' = EmptyMap
  /\ UNCHANGED <<config, store, processed, parked, file, tmp, index, acked, inflight>>

\* fetchAgents returns; an empty page ends processChain (which logs
\* semantic-sync:no-op when no batch of the chain wrote anything), another
\* goes through prepareAgents.
Fetch ==
  /\ pc = "fetch"
  /\ LET chain == resolvedTargets.list[ti].chainId
         agents == FetchAgents(source[chain], lastUpdatedAt, batchSize)
         prepared == prepareAgents(chain, agents, state.chains[chain],
                                   includeOrphanedAgents)
     IN  /\ scan' = Scanned(scan, chain, batch.n = 0, lastUpdatedAt, agents)
         /\ IF Len(agents) = 0
            THEN /\ events' = IF processedAny.chain THEN events
                               ELSE log(events, NoOpEvent(chain, lastUpdatedAt))
                 /\ IF ~processedAny.chain /\ logger = "throws"
                    THEN /\ Abort("log")
                         /\ UNCHANGED <<state, ti, lastUpdatedAt, batch, processedAny>>
                    ELSE /\ EnterTarget(state, ti + 1, resolvedTargets.list)
                         /\ processedAny' = [chain |-> FALSE,
                                             run |-> processedAny.run \/ processedAny.chain]
                         /\ UNCHANGED <<hist, failure>>
                 /\ UNCHANGED fileAtFetch
            ELSE /\ batch' = [some |-> TRUE, chain |-> chain, n |-> IF batch.n = 0 THEN 1 ELSE 2,
                              after |-> lastUpdatedAt, agents |-> agents,
                              prepared |-> prepared]
                 /\ pc' = AfterPrepare(prepared)
                 /\ fileAtFetch' = file
                 /\ UNCHANGED <<state, ti, lastUpdatedAt, processedAny, hist, failure, events>>
  /\ calls' = <<>>
  /\ called' = called \cup {resolvedTargets.list[ti].chainId}
  /\ UNCHANGED <<config, store, saves, processed, parked, resolvedTargets, file, tmp, index, issued, reissued, acked,
                 ackedAtStart, inflight>>

\* Variant: the rejection is caught and the for loop of run() goes on.
FetchFailSkipsChain ==
  /\ pc = "fetch"
  /\ failure' = [at |-> "fetch", ti |-> ti, run |-> RunNo, batch |-> batch]
  /\ EnterTarget(state, ti + 1, resolvedTargets.list)
  /\ processedAny' = [chain |-> FALSE, run |-> processedAny.run \/ processedAny.chain]
  /\ calls' = <<>>
  /\ called' = called \cup {resolvedTargets.list[ti].chainId}
  /\ UNCHANGED <<config, store, observed, parked, resolvedTargets, file, tmp, index, hist, fileAtFetch, issued,
                 reissued, acked, ackedAtStart, inflight>>

\* subgraph.query rejects.
FetchFail ==
  /\ pc = "fetch"
  /\ Abort("fetch")
  /\ called' = called \cup {resolvedTargets.list[ti].chainId}
  /\ UNCHANGED <<config, store, observed, parked, resolvedTargets, file, tmp, index, state, ti, lastUpdatedAt, batch,
                 fileAtFetch, issued, reissued, acked, ackedAtStart, inflight,
                 processedAny, calls>>

\* indexAgents(toIndex) resolves.
Index ==
  /\ pc = "index"
  /\ index' = Upsert(index, batch.prepared.toIndex, 1)
  /\ calls' = calls \o indexAgents(batch.prepared.toIndex)
  /\ issued' = issued \cup IndexItems(batch.prepared)
  /\ reissued' = reissued \cup (issued \cap IndexItems(batch.prepared))
  /\ acked' = acked \cup IndexItems(batch.prepared)
  /\ pc' = AfterIndex(batch.prepared)
  /\ UNCHANGED <<config, store, observed, parked, resolvedTargets, file, tmp, state, ti, lastUpdatedAt, batch, hist,
                 failure, fileAtFetch, called, ackedAtStart, inflight, processedAny>>

\* Variant: the rejection is caught and the batch goes on to its checkpoint.
IndexFailSwallowed ==
  /\ pc = "index"
  /\ failure' = [at |-> "index", ti |-> ti, run |-> RunNo, batch |-> batch]
  /\ pc' = AfterIndex(batch.prepared)
  /\ calls' = calls \o indexAgents(batch.prepared.toIndex)
  /\ issued' = issued \cup IndexItems(batch.prepared)
  /\ reissued' = reissued \cup (issued \cap IndexItems(batch.prepared))
  /\ UNCHANGED <<config, store, observed, parked, resolvedTargets, file, tmp, index, state, ti, lastUpdatedAt, batch,
                 hist, fileAtFetch, called, acked, ackedAtStart, inflight, processedAny>>

\* indexAgents(toIndex) rejects.
IndexFail ==
  /\ pc = "index"
  /\ Abort("index")
  /\ calls' = calls \o indexAgents(batch.prepared.toIndex)
  /\ issued' = issued \cup IndexItems(batch.prepared)
  /\ reissued' = reissued \cup (issued \cap IndexItems(batch.prepared))
  /\ UNCHANGED <<config, store, observed, parked, resolvedTargets, file, tmp, index, state, ti, lastUpdatedAt, batch,
                 fileAtFetch, called, acked, ackedAtStart, inflight, processedAny>>

\* semanticDeleteAgentsBatch(toDelete) resolves.
Delete ==
  /\ pc = "delete"
  /\ index' = DeleteAll(index, batch.prepared.toDelete)
  /\ calls' = Append(calls, semanticDeleteAgentsBatch(batch.prepared.toDelete))
  /\ issued' = issued \cup DeleteItems(batch)
  /\ reissued' = reissued \cup (issued \cap DeleteItems(batch))
  /\ acked' = acked \cup DeleteItems(batch)
  /\ pc' = "save"
  /\ UNCHANGED <<config, store, observed, parked, resolvedTargets, file, tmp, state, ti, lastUpdatedAt, batch, hist,
                 failure, fileAtFetch, called, ackedAtStart, inflight, processedAny>>

\* semanticDeleteAgentsBatch(toDelete) rejects.
DeleteFail ==
  /\ pc = "delete"
  /\ Abort("delete")
  /\ calls' = Append(calls, semanticDeleteAgentsBatch(batch.prepared.toDelete))
  /\ issued' = issued \cup DeleteItems(batch)
  /\ reissued' = reissued \cup (issued \cap DeleteItems(batch))
  /\ UNCHANGED <<config, store, observed, parked, resolvedTargets, file, tmp, index, state, ti, lastUpdatedAt, batch,
                 fileAtFetch, called, acked, ackedAtStart, inflight, processedAny>>

\* Variant: the state is replaced by the entry of the chain of the batch.
CheckpointedForgetsOthers(st, b) ==
  [chains |-> Put(EmptyMap, b.chain, Checkpoint(st.chains[b.chain], b.prepared))]

\* Variant: the watermark of the batch is assigned to every chain's entry.
CheckpointedEveryWatermark(st, b) ==
  LET chains == Put(st.chains, b.chain, Checkpoint(st.chains[b.chain], b.prepared))
  IN  [chains |-> [c \in DOMAIN chains |->
                     [chains[c] EXCEPT !.lastUpdatedAt = b.prepared.maxUpdatedAt]]]

\* The chain state of the batch in hand after its hashes and watermark are
\* applied (processChain, "Update hashes after successful writes").
Checkpointed(st, b) ==
  [chains |-> Put(st.chains, b.chain, Checkpoint(st.chains[b.chain], b.prepared))]

\* The batch's hashes and watermark are applied in memory and save(state)
\* writes the temporary file.
SaveWrite ==
  /\ pc = "save"
  /\ state' = Checkpointed(state, batch)
  /\ lastUpdatedAt' = batch.prepared.maxUpdatedAt
  /\ tmp' = Payload(state')
  /\ saves' = Recorded(saves, [for |-> "batch", ti |-> ti, doc |-> state'], MostSaves)
  /\ pc' = "rename"
  /\ UNCHANGED <<config, store, events, processed, scan, parked, resolvedTargets, file, index, ti, batch, hist, failure, fileAtFetch,
                 called, issued, reissued, acked, ackedAtStart, inflight, processedAny, calls>>

\* save(state) rejects while writing the temporary file, which is left
\* truncated.
SaveFail ==
  /\ pc \in {"save", "finalsave"}
  /\ state' = IF pc = "save" THEN Checkpointed(state, batch) ELSE state
  /\ tmp' = Truncated
  /\ saves' = Recorded(saves, [for |-> IF pc = "save" THEN "batch" ELSE "run", ti |-> ti,
                               doc |-> state'], MostSaves)
  /\ Abort("save")
  /\ UNCHANGED <<config, store, events, processed, scan, parked, resolvedTargets, file, index, ti, lastUpdatedAt, batch, fileAtFetch,
                 called, issued, reissued, acked, ackedAtStart, inflight, processedAny, calls>>

\* Variant: after the first saved batch the while loop is left and run()
\* goes on to the next target.
RenameLeavesChain ==
  /\ pc = "rename"
  /\ tmp.exists
  /\ file' = tmp
  /\ tmp' = NoFile
  /\ EnterTarget(state, ti + 1, resolvedTargets.list)
  /\ processedAny' = [chain |-> FALSE, run |-> TRUE]
  /\ events' = log(events, BatchProcessedEvent(resolvedTargets.list[ti].chainId, batch,
                                               lastUpdatedAt))
  /\ processed' = [processed EXCEPT ![batch.chain] = LastKinds(@, batch.agents, 1)]
  /\ calls' = <<>>
  /\ UNCHANGED <<config, store, saves, scan, parked, resolvedTargets, index, hist, failure, fileAtFetch, called,
                 issued, reissued, acked, ackedAtStart, inflight>>

\* fs.rename(tmp, filepath) of the batch's save; processedAny is updated,
\* semantic-sync:batch-processed is logged and the loop fetches again.
Rename ==
  /\ pc = "rename"
  /\ tmp.exists
  /\ file' = tmp
  /\ tmp' = NoFile
  /\ processedAny' = [processedAny EXCEPT !.chain = \/ @
                                                    \/ Len(batch.prepared.toIndex) > 0
                                                    \/ Len(batch.prepared.toDelete) > 0]
  /\ IF logger = "throws"
     THEN /\ Abort("log")
          /\ UNCHANGED batch
     ELSE /\ batch' = [NoBatch EXCEPT !.n = batch.n]
          /\ pc' = "fetch"
          /\ UNCHANGED <<hist, failure>>
  /\ events' = log(events, BatchProcessedEvent(resolvedTargets.list[ti].chainId, batch,
                                               lastUpdatedAt))
  /\ processed' = [processed EXCEPT ![batch.chain] = LastKinds(@, batch.agents, 1)]
  /\ calls' = <<>>
  /\ UNCHANGED <<config, store, saves, scan, parked, resolvedTargets, index, state, ti, lastUpdatedAt,
                 fileAtFetch, called, issued, reissued, acked, ackedAtStart, inflight>>

\* Variant: run() returns after the for loop without the last save.
FinalSaveOmitted ==
  /\ pc = "finalsave"
  /\ EndRun("completed")
  /\ UNCHANGED <<config, store, observed, parked, resolvedTargets, file, tmp, index, state, ti,
                 lastUpdatedAt, batch, failure, fileAtFetch, called, issued, reissued, acked,
                 ackedAtStart, inflight, processedAny, calls>>

\* The save after the for loop of run() writes the temporary file.
FinalWrite ==
  /\ pc = "finalsave"
  /\ tmp' = Payload(state)
  /\ saves' = Recorded(saves, [for |-> "run", ti |-> ti, doc |-> state], MostSaves)
  /\ pc' = "finalrename"
  /\ UNCHANGED <<config, store, events, processed, scan, parked, resolvedTargets, file, index, state, ti, lastUpdatedAt, batch, hist,
                 failure, fileAtFetch, called, issued, reissued, acked, ackedAtStart,
                 inflight, processedAny, calls>>

\* fs.rename(tmp, filepath) of the last save; run() logs semantic-sync:no-op
\* when no chain wrote anything, and resolves.
FinalRename ==
  /\ pc = "finalrename"
  /\ tmp.exists
  /\ file' = tmp
  /\ tmp' = NoFile
  /\ events' = IF processedAny.run THEN events
                ELSE log(events, RunNoOpEvent(resolvedTargets.list))
  /\ IF ~processedAny.run /\ logger = "throws"
     THEN Abort("log")
     ELSE EndRun("completed") /\ UNCHANGED failure
  /\ UNCHANGED <<config, store, saves, processed, scan, parked, resolvedTargets, index, state, ti, lastUpdatedAt, batch,
                 fileAtFetch, called, issued, reissued, acked, ackedAtStart, inflight,
                 processedAny, calls>>

\* The process is terminated between two steps of run(): memory (the runner
\* and its resolved targets with it) is gone, the files and the index stay as
\* they are.  A process terminated inside
\* fs.writeFile(tmp) may leave the temporary file truncated.
Kill ==
  /\ pc # "idle"
  /\ EndRun(IF pc = "fetch" /\ batch.n > 0 THEN "killedAfterCheckpoint" ELSE "killed")
  /\ inflight' = BatchItems(batch)
  /\ state' = EmptyState
  /\ ti' = 0
  /\ lastUpdatedAt' = ZeroWatermark
  /\ batch' = NoBatch
  /\ processedAny' = NotProcessed
  /\ calls' = <<>>
  /\ fileAtFetch' = file
  /\ called' = {}
  /\ issued' = {}
  /\ reissued' = {}
  /\ ackedAtStart' = acked
  /\ tmp' \in IF pc \in {"save", "finalsave"} THEN {tmp, Truncated} ELSE {tmp}
  /\ resolvedTargets' = Unresolved
  /\ saves' = <<>>
  /\ events' = <<>>
  /\ scan' = EmptyMap
  /\ parked' = NotStarted
  /\ UNCHANGED <<config, store, processed, file, index, failure, acked>>

\* The steps of a run in which every request succeeds.
Step ==
  \/ StartRun
  \/ Fetch
  \/ Index
  \/ Delete
  \/ SaveWrite
  \/ Rename
  \/ FinalWrite
  \/ FinalRename

Next ==
  \/ Step
  \/ FetchFail
  \/ IndexFail
  \/ DeleteFail
  \/ SaveFail
  \/ Kill

Spec == Init /\ [][Next]_vars

\* Runs in which no request fails and the process is not killed: every step
\* of run() is eventually taken.
FairSpec == Init /\ [][Step]_vars /\ WF_vars(Step)

\* ---------------------------------------------------- a source that grows
\* Between two runs the first chain's dataset gains a version of an agent
\* (the registry records an update), its updatedAt no smaller than the last.
AppendVersion ==
  /\ pc = "idle"
  /\ Len(hist) >= 1
  /\ Len(hist) < MaxRuns
  /\ Len(source[Targets[1]]) <= MaxAppends
  /\ \E a \in SubgraphAgents :
       /\ Ascending(Append(source[Targets[1]], a))
       /\ source' = [source EXCEPT ![Targets[1]] = Append(@, a)]
  /\ UNCHANGED <<options, sdk, store, observed, parked, resolvedTargets, file, tmp, index, pc, state,
                 ti, lastUpdatedAt, batch, hist, failure, fileAtFetch, called,
                 issued, reissued, acked, ackedAtStart, inflight, processedAny, calls>>

\* One record in the first chain and none in the second to begin with.
GrowInit ==
  /\ Init
  /\ Len(source[Targets[1]]) = 1
  /\ Len(source[Targets[2]]) = 0

GrowNext ==
  \/ Step
  \/ AppendVersion

\* Runs in which every request succeeds, the source growing between them.
GrowSpec == GrowInit /\ [][GrowNext]_vars

\* --------------------------------------------- runners of every configuration
\* resolveTargets throws: run() rejects after load, before the first
\* processChain.
ResolveFail ==
  /\ pc = "idle"
  /\ Len(hist) < MaxRuns
  /\ load.ok
  /\ ~resolveTargets.ok
  /\ state' = Load
  /\ failure' = [at |-> "resolve", ti |-> 0, run |-> Len(hist) + 1, batch |-> NoBatch]
  /\ EndRun("failed")
  /\ called' = {}
  /\ issued' = {}
  /\ reissued' = {}
  /\ ackedAtStart' = acked
  /\ fileAtFetch' = file
  /\ saves' = <<>>
  /\ events' = <<>>
  /\ scan' = EmptyMap
  /\ UNCHANGED <<config, store, processed, parked, resolvedTargets, file, tmp, index, ti, lastUpdatedAt, batch,
                 acked, inflight, processedAny, calls>>

\* Between two runs the SDK's provider moves to another chain: sdk.chainId()
\* resolves to it from now on.
AmbientChange ==
  /\ pc = "idle"
  /\ Len(hist) < MaxRuns
  /\ \E c \in Chains \ {sdk.chainId} : sdk' = [sdk EXCEPT !.chainId = c]
  /\ UNCHANGED <<source, options, store, observed, parked, resolvedTargets, file, tmp, index, pc, state, ti,
                 lastUpdatedAt, batch, hist, failure, fileAtFetch, called, issued,
                 reissued, acked, ackedAtStart, inflight, processedAny, calls>>

\* Every targets option of up to MaxTargets entries, every override map,
\* every set of built-in URLs and every SDK; one live agent in the first
\* chain and one tombstone in the second.
ResolveInit ==
  /\ source = [c \in Chains |->
                 <<[id |-> 1, updatedAt |-> <<1, 0>>,
                    registrationFile |-> IF c = Targets[1] THEN FirstLiveReg ELSE NullReg]>>]
  /\ batchSize = 1
  /\ includeOrphanedAgents = TRUE
  /\ targetsConfig \in UNION {[1..n -> RunnerTargets] : n \in 0..MaxTargets}
  /\ subgraphOverrides \in [Chains -> {NoUrl, OverrideUrl}]
  /\ defaultSubgraphUrls \in [Chains -> {NoUrl, DefaultUrl}]
  /\ sdk \in [chainId : Chains, subgraphClient : BOOLEAN]
  /\ logger = "none"
  /\ InitRunner

ResolveNext ==
  \/ Step
  \/ ResolveFail
  \/ AmbientChange

\* One runner instance of any configuration, every request succeeding.
ResolveSpec == ResolveInit /\ [][ResolveNext]_vars

\* ------------------------------------------- a state file of the old shape
\* The state file a version before multi-chain support left behind: one
\* checkpoint { lastUpdatedAt, agentHashes } without chains.
LegacyFiles ==
  {[exists |-> TRUE, partial |-> FALSE, doc |-> [lastUpdatedAt |-> w, agentHashes |-> h]] :
     w \in {ZeroWatermark, <<9>>},
     h \in {EmptyMap,
            Put(EmptyMap, 1,
                computeAgentHash(toSemanticAgentRecord(Targets[1],
                  [id |-> 1, updatedAt |-> <<9>>, registrationFile |-> FirstLiveReg])))}}

LegacyInit ==
  /\ \E d1 \in Datasets(MaxRecords), d2 \in Datasets(1) :
       /\ Len(d1) + Len(d2) <= MaxRecords
       /\ source = [c \in Chains |-> IF c = Targets[1] THEN d1 ELSE d2]
  /\ batchSize \in 1..MaxBatchSize
  /\ includeOrphanedAgents = TRUE
  /\ targetsConfig = ExplicitTargets
  /\ subgraphOverrides = [c \in Chains |-> NoUrl]
  /\ defaultSubgraphUrls = [c \in Chains |-> NoUrl]
  /\ sdk = [chainId |-> Targets[1], subgraphClient |-> FALSE]
  /\ logger = "none"
  /\ file \in LegacyFiles
  /\ InitMemory

\* Runs of every ending, the first of them finding a state file of the old
\* shape.
LegacySpec == LegacyInit /\ [][Next]_vars

\* ------------------------------------------------------ runners with a logger
\* options.logger is omitted, is a function that returns, or is a function
\* that throws.
Loggers == {"none", "ok", "throws"}

LogInit ==
  /\ \E d1 \in Datasets(MaxRecords), d2 \in Datasets(1) :
       /\ Len(d1) + Len(d2) <= MaxRecords
       /\ source = [c \in Chains |-> IF c = Targets[1] THEN d1 ELSE d2]
  /\ batchSize \in 1..MaxBatchSize
  /\ includeOrphanedAgents \in BOOLEAN
  /\ targetsConfig = ExplicitTargets
  /\ subgraphOverrides = [c \in Chains |-> NoUrl]
  /\ defaultSubgraphUrls = [c \in Chains |-> NoUrl]
  /\ sdk = [chainId |-> Targets[1], subgraphClient |-> FALSE]
  /\ logger \in Loggers
  /\ InitRunner

\* Runs in which every request succeeds, with each kind of logger.
LogSpec == LogInit /\ [][Step]_vars

\* -------------------------------------------------- the stores, called directly
\* The variables of run().
runner == <<resolvedTargets, index, pc, state, ti, lastUpdatedAt, batch, hist, failure,
            fileAtFetch, called, issued, reissued, acked, ackedAtStart, inflight,
            processedAny, calls>>

StoreKinds == {"file", "memory"}

\* clear() of a store, between runs.  FileSemanticSyncStateStore.clear
\* unlinks the state file (ENOENT is ignored) and clears its private
\* fallback store, which nothing reads; InMemorySemanticSyncStateStore.clear
\* sets this.state = null.
Clear(kind) ==
  /\ pc = "idle"
  /\ IF kind = "file"
     THEN file' = NoFile /\ UNCHANGED memory
     ELSE memory' = NoMemory /\ UNCHANGED file
  /\ probe' = [store |-> kind, op |-> "clear", arg |-> EmptyState, result |-> NoResult,
               at |-> Len(hist)]
  /\ UNCHANGED <<config, runner, observed, parked, tmp>>

ClearFile == Clear("file")

\* The state file is damaged from outside between runs: its content is no
\* longer a JSON document.
Damage ==
  /\ pc = "idle"
  /\ file.exists
  /\ ~file.partial
  /\ file' = Truncated
  /\ UNCHANGED <<config, store, observed, parked, runner, tmp>>

\* run(): stateStore.load() rejects, because JSON.parse throws or because
\* fs.readFile fails with an error other than ENOENT (EACCES, EIO); run()
\* rejects in its first statement.
LoadFail ==
  /\ pc = "idle"
  /\ Len(hist) < MaxRuns
  /\ file.exists
  /\ failure' = [at |-> "load", ti |-> 0, run |-> Len(hist) + 1, batch |-> NoBatch]
  /\ EndRun("failed")
  /\ called' = {}
  /\ issued' = {}
  /\ reissued' = {}
  /\ ackedAtStart' = acked
  /\ fileAtFetch' = file
  /\ saves' = <<>>
  /\ events' = <<>>
  /\ scan' = EmptyMap
  /\ UNCHANGED <<config, store, processed, parked, resolvedTargets, file, tmp, index, state, ti, lastUpdatedAt,
                 batch, acked, inflight, processedAny, calls>>

\* InMemorySemanticSyncStateStore.save: this.state = { lastUpdatedAt:
\* state.lastUpdatedAt, agentHashes: a copy of state.agentHashes or
\* undefined }.  A property that is undefined is a field the record lacks.
memorySave(s) ==
  [null |-> FALSE,
   doc |-> [k \in {"lastUpdatedAt", "agentHashes"} \cap DOMAIN s |-> s[k]]]

\* InMemorySemanticSyncStateStore.load: null, or { ...this.state,
\* agentHashes: { ...(this.state.agentHashes ?? {}) } }.
memoryLoad ==
  IF memory.null THEN NoResult
  ELSE [ok |-> TRUE, null |-> FALSE,
        doc |-> [k \in DOMAIN memory.doc \cup {"agentHashes"} |->
                   IF k \in DOMAIN memory.doc THEN memory.doc[k] ELSE EmptyMap]]

\* The states a caller saves: { chains: {} }, a state with one chain (the
\* state of the store test), and checkpoints of the single-checkpoint shape
\* with and without agentHashes.
SavedStates ==
  LET hashes == Put(EmptyMap, 1, computeAgentHash(toSemanticAgentRecord(Targets[1],
                  [id |-> 1, updatedAt |-> <<1, 0>>, registrationFile |-> FirstLiveReg])))
  IN  {EmptyState,
       [chains |-> Put(EmptyMap, Targets[1], [lastUpdatedAt |-> <<1, 0>>, agentHashes |-> hashes])],
       [chains |-> Put(Put(EmptyMap, Targets[1], [lastUpdatedAt |-> <<1, 0>>, agentHashes |-> hashes]),
                       Targets[2], GenesisChainState)],
       [lastUpdatedAt |-> <<9>>, agentHashes |-> hashes],
       [lastUpdatedAt |-> <<9>>]}

\* store.save(s): the file store writes the temporary file and renames it.
StoreSave ==
  /\ pc = "idle"
  /\ \E kind \in StoreKinds, s \in SavedStates :
       /\ IF kind = "file"
          THEN file' = Payload(s) /\ tmp' = NoFile /\ UNCHANGED memory
          ELSE memory' = memorySave(s) /\ UNCHANGED <<file, tmp>>
       /\ probe' = [store |-> kind, op |-> "save", arg |-> s, result |-> NoResult,
                    at |-> Len(hist)]
  /\ UNCHANGED <<config, runner, observed, parked>>

\* store.load()
StoreLoad ==
  /\ pc = "idle"
  /\ \E kind \in StoreKinds :
       probe' = [store |-> kind, op |-> "load", arg |-> EmptyState,
                 result |-> IF kind = "file" THEN load ELSE memoryLoad, at |-> Len(hist)]
  /\ UNCHANGED <<config, runner, observed, parked, file, tmp, memory>>

\* store.clear()
StoreClear == \E kind \in StoreKinds : Clear(kind)

StoreInit ==
  /\ Init
  /\ \A c \in Chains : source[c] = <<>>

StoreNext ==
  \/ StoreSave
  \/ StoreLoad
  \/ StoreClear

\* A caller that saves, loads and clears the two stores, in any order.
StoreSpec == StoreInit /\ [][StoreNext]_vars

OpsNext ==
  \/ Step
  \/ ClearFile
  \/ Damage
  \/ LoadFail

\* Runs in which every request but load succeeds; between them the store is
\* cleared or the state file damaged.
OpsSpec == Init /\ [][OpsNext]_vars

\* ------------------------------------------------ two invocations of run()
\* Two run() invocations of one process share the state store, the index
\* and the runner; each has its own locals (state is the object its own
\* load returned).  One of them runs between two awaits while the other is
\* suspended at an await or has not started; here the event loop turns from
\* one to the other.
Switch ==
  /\ pc # "idle" \/ parked.pc # "idle"
  /\ parked' = [pc |-> pc, state |-> state, ti |-> ti, lastUpdatedAt |-> lastUpdatedAt,
                batch |-> batch, processedAny |-> processedAny,
                overlap |-> parked.overlap \/ pc # "idle"]
  /\ pc' = parked.pc
  /\ state' = parked.state
  /\ ti' = parked.ti
  /\ lastUpdatedAt' = parked.lastUpdatedAt
  /\ batch' = parked.batch
  /\ processedAny' = parked.processedAny
  /\ UNCHANGED <<config, store, observed, resolvedTargets, file, tmp, index, hist, failure,
                 fileAtFetch, called, issued, reissued, acked, ackedAtStart, inflight, calls>>

\* fs.rename(tmp, filepath) rejects with ENOENT: the save of the other
\* invocation has renamed the temporary file, which both write under one
\* name; save and run() reject.
RenameFail ==
  /\ pc \in {"rename", "finalrename"}
  /\ ~tmp.exists
  /\ Abort("save")
  /\ UNCHANGED <<config, store, observed, parked, resolvedTargets, file, tmp, index, state, ti,
                 lastUpdatedAt, batch, fileAtFetch, called, issued, reissued, acked,
                 ackedAtStart, inflight, processedAny, calls>>

OverlapNext ==
  \/ Step
  \/ IndexFail
  \/ Switch
  \/ RenameFail

\* A runner that fetches one record at a time and deletes orphans.
OverlapInit ==
  /\ Init
  /\ batchSize = 1
  /\ includeOrphanedAgents

\* Runs of one process against one state file, two of which may overlap;
\* an indexing call may fail.
OverlapSpec == OverlapInit /\ [][OverlapNext]_vars

\* ------------------------------------------------- a run as a function
\* processChain from chain state cs and index idx to its empty fetch, no
\* request failing: [ok, chainState, index].  Every batch of a loop that
\* ends moves lastUpdatedAt to another updatedAt of the dataset, so a loop
\* that outlives fuel = Len(dataset) + 1 batches does not end (ok = FALSE).
RECURSIVE ChainToEnd(_, _, _, _)
ChainToEnd(cs, idx, chain, fuel) ==
  LET agents == FetchAgents(source[chain], cs.lastUpdatedAt, batchSize)
      prepared == prepareAgents(chain, agents, cs, includeOrphanedAgents)
  IN  IF Len(agents) = 0 THEN [ok |-> TRUE, chainState |-> cs, index |-> idx]
      ELSE IF fuel = 0 THEN [ok |-> FALSE, chainState |-> cs, index |-> idx]
      ELSE ChainToEnd(Checkpoint(cs, prepared),
                      DeleteAll(Upsert(idx, prepared.toIndex, 1), prepared.toDelete),
                      chain, fuel - 1)

RECURSIVE RunToEnd(_, _, _)
\* The for loop of run() from target i on: [ok, state, index].
RunToEnd(st, idx, i) ==
  IF i > Len(Targets) THEN [ok |-> TRUE, state |-> st, index |-> idx]
  ELSE LET chain == Targets[i]
           st2 == ensureChainState(st, chain)
           r == ChainToEnd(st2.chains[chain], idx, chain, Len(source[chain]) + 1)
       IN  IF ~r.ok THEN [ok |-> FALSE, state |-> st2, index |-> r.index]
           ELSE RunToEnd([chains |-> Put(st2.chains, chain, r.chainState)], r.index, i + 1)

\* One uninterrupted run() from no state file and an empty index.
Uninterrupted == RunToEnd(EmptyState, EmptyMap, 1)

\* --------------------------------------------------------------- claims
LastOutcome == IF hist = <<>> THEN "none" ELSE hist[Len(hist)]
\* How the run before the current one (or before the last one, when idle)
\* ended.
PrevOutcome ==
  IF RunNo < 2 THEN "none" ELSE hist[RunNo - 1]

\* The versions of agent id in chain c with the highest updatedAt.
LatestVersions(c, id) ==
  {source[c][i] : i \in {j \in 1..Len(source[c]) :
      /\ source[c][j].id = id
      /\ \A k \in 1..Len(source[c]) :
           source[c][k].id = id => ToNum(source[c][k].updatedAt) <= ToNum(source[c][j].updatedAt)}}

\* C1: after a run that completes against a static source with orphan
\* inclusion enabled, the index holds for every agent id the canonical record
\* of its highest-watermark version if that version is live, and no entry if
\* it is a tombstone.
C1_IndexReflectsSource ==
  (hist = <<"completed">> /\ includeOrphanedAgents) =>
    \A c \in Chains : \A id \in AgentIds :
      \A v \in LatestVersions(c, id) :
        Cardinality(LatestVersions(c, id)) = 1 =>
          IF v.registrationFile.present
          THEN /\ <<c, id>> \in DOMAIN index
               /\ index[<<c, id>>] = toSemanticAgentRecord(c, v)
          ELSE <<c, id>> \notin DOMAIN index

\* C2: a run that follows a completed run, the source being unchanged, issues
\* no index and no delete call.
C2_SecondRunIssuesNothing ==
  PrevOutcome = "completed" => issued = {}

\* A second run completed after a first that indexed and deleted.
C2_Witness ==
  /\ hist = <<"completed", "completed">>
  /\ issued = {}
  /\ \E x \in acked : x.op = "index"
  /\ \E x \in acked : x.op = "delete"

\* C3: the lastUpdatedAt persisted for a chain, read as an integer, never
\* decreases from one save to the next, whatever way the runs end.
C3_MonotonicWatermark ==
  [][\A c \in Chains :
       (file.exists /\ c \in DOMAIN file.doc.chains) =>
         /\ file'.exists
         /\ c \in DOMAIN file'.doc.chains
         /\ ToNum(file'.doc.chains[c].lastUpdatedAt) >= ToNum(file.doc.chains[c].lastUpdatedAt)]_vars

\* A run that aborted and a later run that saved a higher watermark.
C3_Witness ==
  /\ Len(hist) = 2
  /\ hist[1] = "failed"
  /\ failure.batch.n = 2
  /\ file.exists
  /\ Targets[1] \in DOMAIN file.doc.chains
  /\ file.doc.chains[Targets[1]].lastUpdatedAt = <<1, 1>>

\* C4: with a query service that honours the exclusive lower bound and the
\* ascending order, and no failing request, every run() that starts ends.
C4_Termination ==
  (pc # "idle") ~> (pc = "idle")

\* C5: when the indexing call or the deletion call of a batch fails, the run
\* ends there and the state file is what it was when the batch was fetched.
C5_NoCheckpointOnFailedWrite ==
  (failure.run = RunNo /\ failure.at \in {"index", "delete"}) =>
    /\ pc = "idle"
    /\ file = fileAtFetch

\* The deletion call of a chain's second batch failed.
C5_Witness ==
  /\ failure.run = RunNo
  /\ failure.at = "delete"
  /\ failure.batch.n = 2
  /\ file.exists
  /\ file = fileAtFetch

\* C6: the first fetch a run makes for the chain whose batch failed in the
\* run before it uses the lower bound of the failed batch's fetch, and the
\* batch is prepared to the same index and delete calls.
C6_RetrySameBatch ==
  (/\ failure.at \in {"index", "delete", "save"}
   /\ failure.run = RunNo - 1
   /\ batch.some
   /\ batch.chain = failure.batch.chain
   /\ batch.n = 1) =>
    /\ batch.after = failure.batch.after
    /\ batch.agents = failure.batch.agents
    /\ batch.prepared.toIndex = failure.batch.prepared.toIndex
    /\ batch.prepared.toDelete = failure.batch.prepared.toDelete
    /\ pc \in {"delete", "save", "rename"} => IndexItems(failure.batch.prepared) \subseteq issued
    /\ pc \in {"save", "rename"} => DeleteItems(failure.batch) \subseteq issued

\* The second batch of a chain failed in its deletion call, and the next run
\* has issued its index and delete calls again.
C6_Witness ==
  /\ failure.at = "delete"
  /\ failure.run = RunNo - 1
  /\ failure.batch.n = 2
  /\ batch.some
  /\ batch.chain = failure.batch.chain
  /\ batch.n = 1
  /\ pc = "save"
  /\ DeleteItems(batch) # {}
  /\ DeleteItems(batch) \subseteq issued

\* C7: when the processing of a chain raises, every chain before it in
\* target order has in the state file the watermark and hashes it reached in
\* that run (a chain that fetched nothing and has no entry stands at genesis).
C7_EarlierChainsKept ==
  (failure.run = RunNo /\ failure.at # "none" /\ pc = "idle") =>
    \A i \in 1..(failure.ti - 1) :
      IF file.exists /\ Targets[i] \in DOMAIN file.doc.chains
      THEN file.doc.chains[Targets[i]] = state.chains[Targets[i]]
      ELSE state.chains[Targets[i]] = GenesisChainState

\* The second chain failed after the first had advanced.
C7_Witness ==
  /\ failure.run = RunNo
  /\ failure.at = "index"
  /\ failure.ti = 2
  /\ pc = "idle"
  /\ file.exists
  /\ file.doc.chains[Targets[1]].lastUpdatedAt # ZeroWatermark
  /\ file.doc.chains[Targets[1]] = state.chains[Targets[1]]

\* C8: a failed request ends run() with a rejection, and no request has been
\* issued for a chain after the failing one in target order.
C8_NoCallsAfterFailure ==
  (failure.run = RunNo /\ failure.at # "none") =>
    /\ pc = "idle"
    /\ LastOutcome = "failed"
    /\ called \subseteq {Targets[i] : i \in (1..failure.ti) \cap DOMAIN Targets}

\* The first chain failed while the second had records to process.
C8_Witness ==
  /\ failure.run = RunNo
  /\ failure.at = "index"
  /\ failure.ti = 1
  /\ Len(source[Targets[2]]) > 0
  /\ called = {Targets[1]}
  /\ LastOutcome = "failed"

\* C9: runs killed right after a persisted checkpoint, followed by a run that
\* completes, leave the state file and the index as one uninterrupted run
\* leaves them.
C9_Resumability ==
  (/\ Len(hist) >= 2
   /\ LastOutcome = "completed"
   /\ \A i \in 1..(Len(hist) - 1) : hist[i] = "killedAfterCheckpoint") =>
    /\ Uninterrupted.ok
    /\ file = Payload(Uninterrupted.state)
    /\ index = Uninterrupted.index

\* A run killed after its first checkpoint, and a run that then found more
\* to index and completed.
C9_Witness ==
  /\ hist = <<"killedAfterCheckpoint", "completed">>
  /\ issued # {}
  /\ ackedAtStart # {}
  /\ index = Uninterrupted.index

\* C10: in the run that follows a killed run, every record of an index or
\* delete call that had been acknowledged before the kill belongs to the batch
\* that was in hand when the process was killed.
C10_ReworkWithinInflightBatch ==
  (RunNo = 2 /\ hist[1] \in {"killed", "killedAfterCheckpoint"}) =>
    (issued \cap ackedAtStart) \subseteq inflight

\* The steps of FileSemanticSyncStateStore.save a run can stand at.
SavePcs == {"save", "rename", "finalsave", "finalrename"}
\* The document save(state) is writing, seen from a step of save.
DocBeingSaved ==
  IF pc = "save" THEN Checkpointed(state, batch)
  ELSE IF pc \in {"rename", "finalrename"} THEN tmp.doc ELSE state

\* C11: when the process is terminated at a step of save, the state file is
\* a complete document and load returns the document saved before or the one
\* being saved, whatever the temporary file holds.
C11_CrashDuringSaveAtomic ==
  [][(/\ pc \in SavePcs
      /\ pc' = "idle"
      /\ LastOutcome' \in {"killed", "killedAfterCheckpoint"}) =>
       /\ ~file'.partial
       /\ Load' \in {IF file.exists THEN file.doc ELSE EmptyState, DocBeingSaved}]_vars

\* A run loaded the state file while a truncated temporary file of a save
\* that was cut short lay beside it.
C11_Witness ==
  /\ PrevOutcome = "killed"
  /\ pc = "fetch"
  /\ batch.n = 0
  /\ ti = 1
  /\ tmp.partial
  /\ file.exists
  /\ file.doc # EmptyState
  /\ state = ensureChainState(file.doc, Targets[1])

\* Chain c has the same entry (or none) in the states a and b.
SameEntry(a, b, c) ==
  /\ c \in DOMAIN a.chains <=> c \in DOMAIN b.chains
  /\ c \in DOMAIN a.chains => a.chains[c] = b.chains[c]

\* C12: while processChain works on a chain, the entry of every other chain
\* stays in memory what it was when processChain was entered, and every save
\* of a batch writes that entry to the temporary file and so to the state
\* file.
C12_OtherChainsUntouched ==
  [][(ti \in DOMAIN Targets /\ pc \in {"fetch", "index", "delete", "save", "rename"}) =>
       \A c \in Chains \ {Targets[ti]} :
         /\ (pc' # "idle" /\ ti' = ti) => SameEntry(state, state', c)
         /\ (pc = "save" /\ pc' = "rename") =>
              /\ tmp'.exists /\ ~tmp'.partial
              /\ SameEntry(state, tmp'.doc, c)
         /\ (pc = "rename" /\ pc' = "fetch") =>
              /\ file'.exists /\ ~file'.partial
              /\ SameEntry(state, file'.doc, c)]_vars

\* A batch of the second chain was saved beside the hashes and watermark the
\* first chain had reached, the two watermarks being different.
C12_Witness ==
  /\ pc = "fetch"
  /\ ti = 2
  /\ batch.n = 1
  /\ file.exists
  /\ Chains \subseteq DOMAIN file.doc.chains
  /\ file.doc.chains[Targets[1]].agentHashes # EmptyMap
  /\ file.doc.chains[Targets[1]] = state.chains[Targets[1]]
  /\ file.doc.chains[Targets[2]].lastUpdatedAt # file.doc.chains[Targets[1]].lastUpdatedAt
  /\ file.doc.chains[Targets[2]].lastUpdatedAt # ZeroWatermark

\* The positions of the batch in hand whose registrationFile is null.
Tombstones(b) == {i \in 1..Len(b.agents) : ~b.agents[i].registrationFile.present}

\* C13: with includeOrphanedAgents, once a batch is checkpointed every record
\* of it whose registrationFile is null was in the batch's deletion call and
\* its id has no entry in the chain's agentHashes, in memory and as saved.
C13_OrphansDeletedAndForgotten ==
  (includeOrphanedAgents /\ batch.some /\ pc = "rename") =>
    \A i \in Tombstones(batch) :
      /\ \E k \in 1..Len(batch.prepared.toDelete) :
           batch.prepared.toDelete[k] = [chainId |-> batch.chain, agentId |-> batch.agents[i].id]
      /\ DeleteItems(batch) \subseteq issued
      /\ batch.agents[i].id \notin DOMAIN state.chains[batch.chain].agentHashes
      /\ batch.agents[i].id \notin DOMAIN tmp.doc.chains[batch.chain].agentHashes

\* The positions of the batch in hand that hold a live record.
LivePositions(b) == {i \in 1..Len(b.agents) : b.agents[i].registrationFile.present}
\* Agent id has the same fingerprint, or none, in the maps h1 and h2.
SameHash(h1, h2, id) ==
  /\ id \in DOMAIN h1 <=> id \in DOMAIN h2
  /\ id \in DOMAIN h1 => h1[id] = h2[id]

\* C14 as stated: without includeOrphanedAgents, the checkpoint of a batch
\* that holds a record whose registrationFile is null follows no deletion
\* call and no indexing of that record, and leaves the fingerprint stored for
\* its id as it was.
C14_TombstoneLeavesHashAsStated ==
  [][(~includeOrphanedAgents /\ pc = "save" /\ pc' = "rename") =>
       \A i \in Tombstones(batch) :
         /\ Len(batch.prepared.toDelete) = 0
         /\ \A x \in issued : x.op # "delete"
         /\ Len(batch.prepared.toIndex) <= Cardinality(LivePositions(batch))
         /\ SameHash(state.chains[batch.chain].agentHashes,
                     state'.chains[batch.chain].agentHashes, batch.agents[i].id)]_vars

\* C14, amended: the same, the fingerprint being left as it was when the
\* batch holds no live record of the same id.
C14_TombstoneLeavesHash ==
  [][(~includeOrphanedAgents /\ pc = "save" /\ pc' = "rename") =>
       \A i \in Tombstones(batch) :
         /\ Len(batch.prepared.toDelete) = 0
         /\ \A x \in issued : x.op # "delete"
         /\ Len(batch.prepared.toIndex) <= Cardinality(LivePositions(batch))
         /\ (\A j \in LivePositions(batch) : batch.agents[j].id # batch.agents[i].id) =>
              SameHash(state.chains[batch.chain].agentHashes,
                       state'.chains[batch.chain].agentHashes, batch.agents[i].id)]_vars

\* Without includeOrphanedAgents, a batch made of the tombstone of an agent
\* indexed by an earlier batch was checkpointed and the agent's fingerprint
\* is still stored.
C14_Witness ==
  /\ ~includeOrphanedAgents
  /\ pc = "rename"
  /\ batch.n = 2
  /\ LivePositions(batch) = {}
  /\ \E i \in Tombstones(batch) :
       batch.agents[i].id \in DOMAIN tmp.doc.chains[batch.chain].agentHashes

\* C15: when a batch is checkpointed, a live record of it whose fingerprint
\* was the one stored for its id is not in the batch's index call and the
\* fingerprint stored for its id is what it was.
C15_UnchangedNotReindexed ==
  [][(pc = "save" /\ pc' = "rename") =>
       \A i \in LivePositions(batch) :
         LET id == batch.agents[i].id
             record == toSemanticAgentRecord(batch.chain, batch.agents[i])
             stored == state.chains[batch.chain].agentHashes
         IN  (id \in DOMAIN stored /\ stored[id] = computeAgentHash(record)) =>
               /\ \A k \in 1..Len(batch.prepared.toIndex) : batch.prepared.toIndex[k] # record
               /\ SameHash(stored, state'.chains[batch.chain].agentHashes, id)]_vars

\* The index call entry of version a of chain c.
IndexItemOf(c, a) ==
  [op |-> "index", chainId |-> c, agentId |-> a.id, record |-> toSemanticAgentRecord(c, a)]

\* C16: an agent indexed by a completed run gains a live version with a
\* higher updatedAt and another name or ens; the run that follows sends the
\* new version in exactly one index call, stores its fingerprint and saves
\* its updatedAt as the chain's lastUpdatedAt.
C16_ChangedRecordReindexedOnce ==
  LET c == Targets[1]
      old == source[c][1]
      new == source[c][2]
  IN  (/\ hist = <<"completed", "completed">>
       /\ Len(source[c]) = 2
       /\ old.registrationFile.present
       /\ new.registrationFile.present
       /\ new.id = old.id
       /\ ToNum(new.updatedAt) > ToNum(old.updatedAt)
       /\ \/ new.registrationFile.name # old.registrationFile.name
          \/ new.registrationFile.ens # old.registrationFile.ens
       /\ [op |-> "index", chainId |-> c, agentId |-> old.id,
           record |-> toSemanticAgentRecord(c, old)] \in ackedAtStart) =>
        /\ IndexItemOf(c, new) \in issued \ reissued
        /\ file.doc.chains[c].agentHashes[new.id] =
             computeAgentHash(toSemanticAgentRecord(c, new))
        /\ file.doc.chains[c].lastUpdatedAt = new.updatedAt

\* The client the stated order gives a requested target: its own client, its
\* URL, the override URL of its chain, the built-in URL of its chain, then
\* the SDK's client when the chain is the one sdk.chainId() gives; ok = FALSE
\* when none applies.
ClaimedClient(target, position) ==
  IF target.subgraphClient THEN [ok |-> TRUE, subgraphClient |-> ExplicitClient(position)]
  ELSE IF target.subgraphUrl # NoUrl
  THEN [ok |-> TRUE, subgraphClient |-> UrlClient(target.subgraphUrl)]
  ELSE IF subgraphOverrides[target.chainId] # NoUrl
  THEN [ok |-> TRUE, subgraphClient |-> UrlClient(subgraphOverrides[target.chainId])]
  ELSE IF defaultSubgraphUrls[target.chainId] # NoUrl
  THEN [ok |-> TRUE, subgraphClient |-> UrlClient(defaultSubgraphUrls[target.chainId])]
  ELSE IF target.chainId = sdk.chainId /\ sdk.subgraphClient
  THEN [ok |-> TRUE, subgraphClient |-> SdkClient]
  ELSE [ok |-> FALSE, subgraphClient |-> SdkClient]

\* C18: a resolution that succeeds binds every requested target to the client
\* of the first rule that applies, in the order explicit client, explicit
\* URL, override URL, built-in URL, SDK client; and a resolution throws only
\* when some target has none of them.
C18_ResolutionOrder ==
  [][/\ (~resolvedTargets.set /\ resolvedTargets'.set) =>
          \A i \in DOMAIN Requested.targets :
            /\ ClaimedClient(Requested.targets[i], i).ok
            /\ resolvedTargets'.list[i].chainId = Requested.targets[i].chainId
            /\ resolvedTargets'.list[i].subgraphClient =
                 ClaimedClient(Requested.targets[i], i).subgraphClient
     /\ (hist' # hist /\ failure'.at = "resolve" /\ failure'.run = Len(hist')) =>
          \E i \in DOMAIN Requested.targets : ~ClaimedClient(Requested.targets[i], i).ok]_vars

\* Some requested target has no client, no URL of its own, no override URL,
\* no SDK shortcut and no built-in URL.
SomeUnresolvable ==
  \E i \in DOMAIN Requested.targets :
    ~ResolveOne(Requested.targets[i], i, Requested.defaultChainId).ok

\* C19: a run() of a runner one of whose targets cannot be resolved rejects
\* at once: nothing is fetched, indexed, deleted or saved for any chain, and
\* the state file, the temporary file and the index are what they were.
C19_UnresolvableFailsFast ==
  [][(pc = "idle" /\ ~resolvedTargets.set /\ SomeUnresolvable /\ sdk' = sdk) =>
       /\ pc' = "idle"
       /\ hist' = Append(hist, "failed")
       /\ called' = {}
       /\ issued' = {}
       /\ file' = file
       /\ tmp' = tmp
       /\ index' = index
       /\ ~resolvedTargets'.set]_vars

\* A run rejected because its second target could not be resolved, its first
\* target being resolvable and having data to sync.
C19_Witness ==
  /\ hist = <<"failed">>
  /\ failure.at = "resolve"
  /\ Len(targetsConfig) = 2
  /\ ResolveOne(targetsConfig[1], 1, NoChain).ok
  /\ ~ResolveOne(targetsConfig[2], 2, NoChain).ok
  /\ Len(source[targetsConfig[1].chainId]) > 0
  /\ called = {}
  /\ issued = {}
  /\ ~file.exists

\* C20: once resolveTargets has succeeded, this.resolvedTargets never
\* changes, and a run() that starts enters the first target of that list,
\* whatever sdk.chainId() would give now.
C20_ResolvedOnce ==
  [][resolvedTargets.set =>
       /\ resolvedTargets' = resolvedTargets
       /\ (pc = "idle" /\ sdk' = sdk /\ Len(hist) < MaxRuns) =>
            /\ pc' = "fetch"
            /\ ti' = 1
            /\ resolvedTargets.list[1].chainId \in DOMAIN state'.chains]_vars

\* A second run of a runner without targets option goes to the chain
\* resolved by the first run, sdk.chainId() giving another chain by now.
C20_Witness ==
  /\ resolvedTargets.set
  /\ Len(targetsConfig) = 0
  /\ Len(hist) = 1
  /\ pc = "fetch"
  /\ ti = 1
  /\ sdk.chainId # resolvedTargets.list[1].chainId
  /\ DOMAIN state.chains = {resolvedTargets.list[1].chainId}

\* The largest of a set of integers that is not empty.
MaxOf(S) == CHOOSE x \in S : \A y \in S : y <= x

\* C17: the maxUpdatedAt prepareAgents returns is, read as an integer, the
\* largest of the chain's lastUpdatedAt and the updatedAt of the records of
\* the batch.
C17_StagedWatermarkIsIntegerMax ==
  (batch.some /\ pc \in {"index", "delete", "save"}) =>
    ToNum(batch.prepared.maxUpdatedAt) =
      MaxOf({ToNum(state.chains[batch.chain].lastUpdatedAt)}
            \cup {ToNum(batch.agents[i].updatedAt) : i \in 1..Len(batch.agents)})

\* C21: when the targets option is omitted or empty, resolution yields
\* exactly one target, whose chain id is the chain sdk.chainId() resolves to
\* at that moment.
C21_ImplicitSingleTarget ==
  [][(/\ Len(targetsConfig) = 0
      /\ ~resolvedTargets.set
      /\ resolvedTargets'.set)
     => /\ Len(resolvedTargets'.list) = 1
        /\ resolvedTargets'.list[1].chainId = sdk.chainId]_vars

\* A runner without targets has fetched from the chain of the SDK, which is
\* not the first chain.
C21_Witness ==
  /\ Len(targetsConfig) = 0
  /\ resolvedTargets.set
  /\ Len(resolvedTargets.list) = 1
  /\ sdk.chainId = Targets[2]
  /\ called = {Targets[2]}

\* The state file is of the old single-checkpoint shape.
IsLegacy(f) == f.exists /\ ~f.partial /\ "chains" \notin DOMAIN f.doc

\* C22: a run that loads a legacy single-checkpoint state gives its watermark
\* and hashes to the first resolved chain and to no other (the others start
\* at genesis), and no state it saves holds a legacy entry.
C22_LegacyAdoptedOnce ==
  [][/\ (pc = "idle" /\ pc' # "idle" /\ IsLegacy(file)) =>
          LET first == resolvedTargets'.list[1].chainId
          IN  /\ DOMAIN state'.chains = {first}
              /\ state'.chains[first].lastUpdatedAt = file.doc.lastUpdatedAt
              /\ state'.chains[first].agentHashes = file.doc.agentHashes
     /\ \A c \in DOMAIN state'.chains :
          (pc # "idle" /\ pc' # "idle" /\ c \notin DOMAIN state.chains) =>
             /\ c # LegacyKey
             /\ state'.chains[c] = GenesisChainState
     /\ file' # file =>
          /\ ~IsLegacy(file')
          /\ LegacyKey \notin DOMAIN file'.doc.chains]_vars

\* A first run that found a legacy checkpoint at '9' has completed: the
\* first chain holds it in the new shape, the second chain has an entry too.
C22_Witness ==
  /\ hist = <<"completed">>
  /\ ~IsLegacy(file)
  /\ DOMAIN file.doc.chains = Chains
  /\ file.doc.chains[Targets[1]].lastUpdatedAt = <<9>>
  /\ 1 \in DOMAIN file.doc.chains[Targets[1]].agentHashes
  /\ file.doc.chains[Targets[2]].lastUpdatedAt # <<9>>

\* C23: with a logger that throws, the first run ends with the persisted
\* state and the index that a run without logger ends with.
C23_ThrowingLoggerHarmless ==
  (/\ logger = "throws"
   /\ pc = "idle"
   /\ Len(hist) = 1
   /\ Uninterrupted.ok) =>
     /\ file = Payload(Uninterrupted.state)
     /\ index = Uninterrupted.index

\* The state file exists and is not a JSON document.
Unparseable(f) == f.exists /\ f.partial

\* C24: load returns null when there is no state file (none saved yet, or
\* cleared); with an unparseable or unreadable file load throws and the run
\* that called it rejects before any fetch, index or delete call.
C24_LoadNullOrFatal ==
  [][/\ (pc = "idle" /\ ~file.exists) => (load.ok /\ load.null)
     /\ (pc = "idle" /\ Unparseable(file)) => pc' = "idle"
     /\ (pc = "idle" /\ Unparseable(file) /\ Len(hist') > Len(hist)) =>
          /\ hist'[Len(hist')] = "failed"
          /\ failure'.at = "load"
          /\ called' = {}
          /\ issued' = {}
          /\ index' = index
          /\ file' = file]_vars

\* A second run has rejected at load, on a file that the first run saved
\* and that was damaged afterwards.
C24_Witness ==
  /\ Len(hist) = 2
  /\ hist[2] = "failed"
  /\ failure.at = "load"
  /\ Unparseable(file)
  /\ called = {}

\* The store of a kind holds a state.
Holds(kind) == IF kind = "file" THEN file.exists ELSE ~memory.null

\* C25: for the file store and the in-memory store, load right after save(s)
\* returns s, load right after clear returns null, and clear on a store that
\* holds no state changes nothing.
C25_StoreRoundTrip ==
  [][/\ (probe.op = "save" /\ probe'.op = "load" /\ probe'.store = probe.store) =>
          probe'.result = [ok |-> TRUE, null |-> FALSE, doc |-> probe.arg]
     /\ (probe.op = "clear" /\ probe'.op = "load" /\ probe'.store = probe.store) =>
          probe'.result = NoResult
     /\ (probe'.op = "clear" /\ probe' # probe /\ ~Holds(probe'.store)) =>
          /\ file' = file
          /\ memory' = memory]_vars

\* The run in progress, or the last run when idle, is the first one started
\* after clear() of the file store.
AfterClear == probe.op = "clear" /\ probe.store = "file" /\ probe.at = RunNo - 1

\* C26: the run that follows clear() enters every chain at watermark '0'
\* with no hashes and, when it completes, has sent every live source record
\* to the indexing service.
C26_ClearResetsToGenesis ==
  /\ (AfterClear /\ pc = "fetch" /\ batch.n = 0) =>
       /\ lastUpdatedAt = ZeroWatermark
       /\ state.chains[resolvedTargets.list[ti].chainId] = GenesisChainState
  /\ (AfterClear /\ pc = "idle" /\ LastOutcome = "completed") =>
       \A c \in Chains : \A i \in 1..Len(source[c]) :
         source[c][i].registrationFile.present => IndexItemOf(c, source[c][i]) \in issued

\* C27: a fetched live version whose canonical record differs, in any field,
\* from the record the index holds for its id has another canonical string
\* than that record, and is marked for indexing.
C27_AnyFieldChangesHashInput ==
  (batch.some /\ calls = <<>> /\ pc \in {"index", "delete", "save"}) =>
    \A i \in LivePositions(batch) :
      LET record == toSemanticAgentRecord(batch.chain, batch.agents[i])
          key == <<batch.chain, batch.agents[i].id>>
      IN  (key \in DOMAIN index /\ index[key] # record) =>
            /\ Canonical(index[key]) # Canonical(record)
            /\ \E k \in 1..Len(batch.prepared.toIndex) : batch.prepared.toIndex[k] = record

\* The indexing calls and the deletion calls made for the batch in hand.
IndexCalls == SelectSeq(calls, LAMBDA c : c.method \in {"indexAgent", "indexAgentsBatch"})
DeleteCalls == SelectSeq(calls, LAMBDA c : c.method = "semanticDeleteAgentsBatch")

\* C28: when the calls of a batch are done, there is no indexing call if
\* nothing was marked for indexing, one indexAgent call if one record was,
\* one indexAgentsBatch call with all of them if more were; and one deletion
\* call with all records marked for deletion if any was, else none.
C28_CallPerBatch ==
  /\ Len(IndexCalls) <= 1
  /\ Len(DeleteCalls) <= 1
  /\ pc \in {"save", "rename"} =>
       LET toIndex == batch.prepared.toIndex
           toDelete == batch.prepared.toDelete
       IN  /\ Len(toIndex) = 0 => IndexCalls = <<>>
           /\ Len(toIndex) = 1 => IndexCalls = <<[method |-> "indexAgent", args |-> toIndex]>>
           /\ Len(toIndex) > 1 => IndexCalls = <<[method |-> "indexAgentsBatch", args |-> toIndex]>>
           /\ Len(toDelete) = 0 => DeleteCalls = <<>>
           /\ Len(toDelete) > 0 =>
                DeleteCalls = <<[method |-> "semanticDeleteAgentsBatch", args |-> toDelete]>>

\* A batch with one record to index and one to delete has made its two
\* calls.
C28_Witness ==
  /\ pc = "save"
  /\ Len(calls) = 2
  /\ calls[1].method = "indexAgent"
  /\ calls[2].method = "semanticDeleteAgentsBatch"
  /\ Len(calls[2].args) = 1

\* C29: the deletion call of a batch is made after its indexing call has
\* returned; save is called for the batch after every call the batch needs
\* has returned; and the next fetch of the chain finds the batch's state
\* saved.
C29_CallsThenSaveThenFetch ==
  [][/\ Len(DeleteCalls') > Len(DeleteCalls) =>
          /\ pc = "delete"
          /\ Len(batch.prepared.toIndex) > 0 => Len(IndexCalls) = 1
     /\ (pc = "save" /\ pc' = "rename") =>
          /\ Len(IndexCalls) = (IF Len(batch.prepared.toIndex) > 0 THEN 1 ELSE 0)
          /\ Len(DeleteCalls) = (IF Len(batch.prepared.toDelete) > 0 THEN 1 ELSE 0)
          /\ BatchItems(batch) \subseteq acked
          /\ tmp' = Payload(Checkpointed(state, batch))
     /\ (pc = "fetch" /\ batch.n > 0) =>
          /\ file = Payload(state)
          /\ tmp = NoFile]_vars

\* A batch that made an indexing and a deletion call is saved and the chain
\* is about to be fetched again.
C29_Witness ==
  /\ pc = "fetch"
  /\ batch.n > 0
  /\ file = Payload(state)
  /\ \E x \in issued : x.op = "index"
  /\ \E x \in issued : x.op = "delete"
  /\ Len(hist) = 0

\* The chains of the targets up to position k.
ChainsUpTo(k) ==
  {resolvedTargets.list[i].chainId : i \in {j \in 1..Len(resolvedTargets.list) : j <= k}}

\* C30: within a run the targets are processed one after another in target
\* order: every request belongs to the target at the current position, no
\* chain of a later target has been called, and the position moves on by one
\* only when the fetch of the current target returns no record.
C30_TargetsInOrder ==
  [][/\ pc # "idle" =>
          /\ called \subseteq ChainsUpTo(ti)
          /\ batch.some => batch.chain = resolvedTargets.list[ti].chainId
          /\ \A x \in issued' \ issued : x.chainId = resolvedTargets.list[ti].chainId
          /\ \A c \in Chains :
               (/\ tmp' # tmp
                /\ tmp'.exists
                /\ ~tmp'.partial
                /\ c \in DOMAIN state.chains
                /\ tmp'.doc.chains[c] # state.chains[c]) => c = resolvedTargets.list[ti].chainId
     /\ (pc # "idle" /\ pc' # "idle" /\ ti' # ti) =>
          /\ ti' = ti + 1
          /\ pc = "fetch"
          /\ FetchAgents(source[resolvedTargets.list[ti].chainId], lastUpdatedAt, batchSize) = <<>>]_vars

\* The second target has a batch in hand after the first target's batches
\* were indexed and saved.
C30_Witness ==
  /\ pc = "index"
  /\ ti = 2
  /\ batch.chain = Targets[2]
  /\ called = Chains
  /\ \E x \in issued : x.chainId = Targets[1]
  /\ file.exists
  /\ Targets[1] \in DOMAIN file.doc.chains

RECURSIVE BatchesFrom(_)
\* The non-empty batches this run has fetched from the targets at position
\* i and after.
BatchesFrom(i) ==
  IF i > Len(resolvedTargets.list) THEN 0
  ELSE (IF resolvedTargets.list[i].chainId \in DOMAIN scan
        THEN scan[resolvedTargets.list[i].chainId].batches ELSE 0) + BatchesFrom(i + 1)
\* The non-empty batches this run has fetched.
BatchesFetched == BatchesFrom(1)

\* C31: save has been called once for every non-empty batch fetched whose
\* calls are done, and a run that completes has called it once more after
\* the last target; every state saved holds the entry of every target
\* entered so far, those of the targets already left being final.
C31_SaveOncePerBatchAndOnceMore ==
  LET targets == resolvedTargets.list
      last == saves[Len(saves)]
  IN  /\ (pc # "idle" /\ BatchesFetched < MostBatches) =>
           Len(saves) = CASE pc \in {"index", "delete", "save"} -> BatchesFetched - 1
                          [] pc \in {"rename", "fetch", "finalsave"} -> BatchesFetched
                          [] pc = "finalrename" -> BatchesFetched + 1
      /\ (pc = "idle" /\ LastOutcome = "completed") =>
           /\ Len(saves) = BatchesFetched + 1
           /\ last.for = "run"
           /\ \A k \in 1..(Len(saves) - 1) : saves[k].for = "batch"
           /\ \A k \in 1..Len(saves) :
                /\ \A i \in DOMAIN targets :
                     i <= saves[k].ti => targets[i].chainId \in DOMAIN saves[k].doc.chains
                /\ \A i \in DOMAIN targets :
                     i < saves[k].ti =>
                       saves[k].doc.chains[targets[i].chainId] = last.doc.chains[targets[i].chainId]

\* A run that fetched one batch from each chain has completed: three saves,
\* the second one holding what the first chain had reached.
C31_Witness ==
  /\ hist = <<"completed">>
  /\ Len(saves) = 3
  /\ saves[2].ti = 2
  /\ saves[2].for = "batch"
  /\ saves[2].doc.chains[Targets[1]].agentHashes # EmptyMap
  /\ saves[1].doc.chains[Targets[1]] = saves[2].doc.chains[Targets[1]]

\* The number of records the calls of the batch in hand carried.
IndexedCount == IF IndexCalls = <<>> THEN 0 ELSE Len(IndexCalls[1].args)
DeletedCount == IF DeleteCalls = <<>> THEN 0 ELSE Len(DeleteCalls[1].args)

\* C32: the step that completes the save of a batch hands the sink one
\* batch-processed event with the chain, the number of records of the
\* batch's index call and of its delete call, and the watermark just saved;
\* the step that ends a chain's loop hands it one no-op event for the chain
\* exactly when the run made no index or delete call for the chain; the step
\* that completes the last save hands it one no-op event for the run exactly
\* when the run made no such call at all; no other step hands it an event.
C32_SinkEvents ==
  [][(logger # "none" /\ pc # "idle" /\ Len(events) < MostEvents) =>
       LET chain == resolvedTargets.list[ti].chainId
           new == SubSeq(events', Len(events) + 1, Len(events'))
       IN  CASE pc = "rename" ->
                  /\ file' = Payload(state)
                  /\ new = <<[message |-> "semantic-sync:batch-processed", chainId |-> chain,
                              indexed |-> IndexedCount, deleted |-> DeletedCount,
                              lastUpdatedAt |-> file'.doc.chains[chain].lastUpdatedAt,
                              chains |-> <<>>]>>
             [] pc = "fetch" /\ FetchAgents(source[chain], lastUpdatedAt, batchSize) = <<>> ->
                  new = IF \E x \in issued : x.chainId = chain THEN <<>>
                        ELSE <<[message |-> "semantic-sync:no-op", chainId |-> chain,
                                indexed |-> 0, deleted |-> 0,
                                lastUpdatedAt |-> lastUpdatedAt, chains |-> <<>>]>>
             [] pc = "finalrename" ->
                  /\ file' = Payload(state)
                  /\ new = IF issued # {} THEN <<>>
                           ELSE <<[message |-> "semantic-sync:no-op", chainId |-> 0,
                                   indexed |-> 0, deleted |-> 0, lastUpdatedAt |-> <<>>,
                                   chains |-> Targets]>>
             [] OTHER -> events' = events]_vars

\* A run with a logger has completed: the sink got the event of a batch
\* that indexed one record, deleted one and skipped none, and the no-op
\* event of the second chain.
C32_Witness ==
  /\ logger = "ok"
  /\ hist = <<"completed">>
  /\ Len(events) = 2
  /\ events[1].message = "semantic-sync:batch-processed"
  /\ events[1].indexed = 1
  /\ events[1].deleted = 1
  /\ events[1].lastUpdatedAt = file.doc.chains[Targets[1]].lastUpdatedAt
  /\ events[2] = NoOpEvent(Targets[2], ZeroWatermark)

\* C33: with includeOrphanedAgents, the agentHashes the state file holds for
\* a chain have an entry for an agent id exactly when the last version of
\* the id in the batches saved so far was live, and then an index call for
\* the id has been acknowledged; an id whose last such version was a
\* tombstone has no entry. (A batch holding a tombstone followed by a live
\* version equal to the stored hash stages the removal only: part_001:305-317.)
C33_HashEntryIffLastVersionLive ==
  (includeOrphanedAgents /\ file.exists) =>
    \A c \in DOMAIN file.doc.chains : \A id \in AgentIds :
      /\ id \in DOMAIN file.doc.chains[c].agentHashes <=>
           (id \in DOMAIN processed[c] /\ processed[c][id] = "live")
      /\ id \in DOMAIN file.doc.chains[c].agentHashes =>
           \E x \in acked : x.op = "index" /\ x.chainId = c /\ x.agentId = id

\* The state file was written by the step that led here: the save of a
\* batch, or the last save of a run that completed.
JustSaved ==
  \/ pc = "fetch" /\ batch.n > 0 /\ ~batch.some
  \/ pc = "idle" /\ LastOutcome = "completed"

\* C34: right after a save, every agent id that has a fingerprint in the
\* agentHashes saved for a chain is in the index, with a record of that
\* fingerprint.
C34_HashedIdsAreIndexed ==
  (JustSaved /\ file.exists) =>
    \A c \in DOMAIN file.doc.chains : \A id \in DOMAIN file.doc.chains[c].agentHashes :
      /\ <<c, id>> \in DOMAIN index
      /\ computeAgentHash(index[<<c, id>>]) = file.doc.chains[c].agentHashes[id]

\* C35: when a run has completed, every record of a chain whose updatedAt is
\* above the lastUpdatedAt the run entered the chain with was in a batch the
\* run fetched and prepared.
C35_EveryNewerRecordFetched ==
  (pc = "idle" /\ LastOutcome = "completed") =>
    \A c \in DOMAIN scan : \A i \in 1..Len(source[c]) :
      ToNum(source[c][i].updatedAt) > ToNum(scan[c].from) => source[c][i] \in scan[c].seen

\* The entry the state file holds for chain c; genesis when it holds none.
SavedEntry(f, c) ==
  IF f.exists /\ c \in DOMAIN f.doc.chains THEN f.doc.chains[c] ELSE GenesisChainState

\* C36: every save of a batch replaces the chain's entry in the state file,
\* in one step, by the pair of the batch's maxUpdatedAt and the hashes that
\* result from applying the batch's staged entries to the hashes saved
\* before; no step changes the watermark saved for a chain and leaves its
\* hashes of another batch, or the other way round; a failed or interrupted
\* save leaves the pair saved before.
C36_WatermarkAndHashesTogether ==
  [][/\ (pc = "rename" /\ file' # file) =>
          /\ file'.exists /\ ~file'.partial
          /\ file'.doc.chains[batch.chain] =
               [lastUpdatedAt |-> batch.prepared.maxUpdatedAt,
                agentHashes |-> ApplyHashes(SavedEntry(file, batch.chain).agentHashes,
                                            batch.prepared.hashes, 1)]
          /\ \A c \in DOMAIN file'.doc.chains \ {batch.chain} :
               file'.doc.chains[c] = SavedEntry(file, c)
     /\ (pc # "rename") =>
          \A c \in Chains : SavedEntry(file', c) = SavedEntry(file, c)]_vars

\* The second batch of a chain is saved: the file pairs its watermark with
\* hashes that hold what both batches staged.
C36_Witness ==
  /\ pc = "fetch"
  /\ batch.n = 2
  /\ ~batch.some
  /\ Len(hist) = 0
  /\ file.doc.chains[Targets[1]].lastUpdatedAt = <<1, 1>>
  /\ DOMAIN file.doc.chains[Targets[1]].agentHashes = {1, 2}

\* C37: with includeOrphanedAgents, once the calls of a batch are made its
\* deletion call names every fetched record whose registrationFile is null,
\* whether or not agentHashes had an entry for the id when the batch was
\* prepared.
C37_TombstoneAlwaysDeleted ==
  (includeOrphanedAgents /\ batch.some /\ pc \in {"save", "rename"}) =>
    \A i \in Tombstones(batch) :
      /\ Len(DeleteCalls) = 1
      /\ \E k \in 1..Len(DeleteCalls[1].args) :
           DeleteCalls[1].args[k] = [chainId |-> batch.chain, agentId |-> batch.agents[i].id]

\* The deletion call of the first batch of a first run names an agent that
\* was never indexed and has no hash entry.
C37_Witness ==
  /\ includeOrphanedAgents
  /\ pc = "save"
  /\ hist = <<>>
  /\ batch.n = 1
  /\ index = EmptyMap
  /\ acked = DeleteItems(batch)
  /\ state.chains[batch.chain].agentHashes = EmptyMap
  /\ Len(DeleteCalls) = 1
  /\ Tombstones(batch) # {}

\* C38: a batch none of whose records is marked for indexing or deletion
\* makes no call and is saved all the same, with the chain's lastUpdatedAt
\* at the largest updatedAt of the batch, so that the next fetch returns none
\* of its records.
C38_SkippedBatchAdvances ==
  (/\ batch.some
   /\ pc = "rename"
   /\ Len(batch.prepared.toIndex) = 0
   /\ Len(batch.prepared.toDelete) = 0) =>
     LET saved == tmp.doc.chains[batch.chain].lastUpdatedAt
         again == FetchAgents(source[batch.chain], saved, batchSize)
     IN  /\ calls = <<>>
         /\ tmp.exists /\ ~tmp.partial
         /\ ToNum(saved) = MaxOf({ToNum(batch.agents[i].updatedAt) : i \in 1..Len(batch.agents)})
         /\ \A i \in 1..Len(batch.agents) : \A k \in 1..Len(again) : again[k] # batch.agents[i]

\* A step changes the state file and keeps what it held for chain c: the
\* chain still has an entry, its lastUpdatedAt is, as an integer, no smaller,
\* and every agent id that had a fingerprint has one, unless it is one of
\* deleted.
KeepsSaved(c, deleted) ==
  (file.exists /\ c \in DOMAIN file.doc.chains /\ file' # file) =>
    /\ file'.exists
    /\ c \in DOMAIN file'.doc.chains
    /\ ToNum(file'.doc.chains[c].lastUpdatedAt) >= ToNum(file.doc.chains[c].lastUpdatedAt)
    /\ \A id \in DOMAIN file.doc.chains[c].agentHashes \ deleted :
         id \in DOMAIN file'.doc.chains[c].agentHashes

\* The agents of chain c a deletion call has been acknowledged for.
DeletedEver(c) == {x.agentId : x \in {y \in acked : y.op = "delete" /\ y.chainId = c}}
\* The agents of chain c whose tombstone is in the batch being saved.
DeletedByBatch(c) ==
  IF includeOrphanedAgents /\ pc = "rename" /\ batch.chain = c
  THEN {batch.agents[i].id : i \in Tombstones(batch)}
  ELSE {}

\* C39 as stated: whether or not run() invocations overlap, no save lowers
\* the lastUpdatedAt saved for a chain, and no save drops a fingerprint
\* saved before (that of an agent some invocation has deleted apart).
C39_OverlappingRunsKeepState ==
  [][\A c \in Chains : KeepsSaved(c, DeletedEver(c))]_vars

\* C39, amended: as long as no invocation has been suspended while another
\* one went on, no save lowers the lastUpdatedAt saved for a chain or drops
\* a fingerprint saved before, other than that of an agent whose tombstone
\* is in the batch being saved.
C39_SequentialRunsKeepState ==
  [][~parked'.overlap => \A c \in Chains : KeepsSaved(c, DeletedByBatch(c))]_vars

\* A run that follows a failed run, with no overlap, has saved a higher
\* watermark beside a fingerprint the failed run had saved.
C39_Witness ==
  /\ ~parked.overlap
  /\ Len(hist) = 1
  /\ hist[1] = "failed"
  /\ pc = "fetch"
  /\ batch.n = 1
  /\ fileAtFetch.exists
  /\ fileAtFetch.doc.chains[Targets[1]].agentHashes # EmptyMap
  /\ DOMAIN fileAtFetch.doc.chains[Targets[1]].agentHashes
       \subseteq DOMAIN file.doc.chains[Targets[1]].agentHashes
  /\ ToNum(file.doc.chains[Targets[1]].lastUpdatedAt)
       > ToNum(fileAtFetch.doc.chains[Targets[1]].lastUpdatedAt)

====
